---- MODULE Spec2Model ----
(***************************************************************************)
(* A model of the microphone pitch detector of the Oud note trainer        *)
(* (src/src/lib/micPitchDetector.ts) and of the note arithmetic it uses    *)
(* (noteUtils).  The module-level variables of micPitchDetector.ts are the *)
(* state; startListening, stopListening, tick, restartMicrophone and the   *)
(* track.onended handler are the actions; getUserMedia, AudioContext       *)
(* resume, requestAnimationFrame and performance.now() are the environment.*)
(*                                                                         *)
(* RMS levels are counted in thousandths (0.01 is 10, 0.012 is 12), time   *)
(* in milliseconds of performance.now(), frequencies in whole Hz.          *)
(***************************************************************************)
EXTENDS Integers, Sequences, FiniteSets, TLC

\* JavaScript null: a value outside every handle, timestamp and MIDI range.
Null == 0 - 1

-----------------------------------------------------------------------------
\* Bounds of the model.

\* getUserMedia calls issued in one behaviour (startListening and recoveries).
MaxAcq == 4
\* getUserMedia calls issued in one behaviour of the lifecycle and denial
\* specifications, which interleave the caller's calls as well.
LifeMaxAcq == 3
\* The number of startListening calls the caller makes in the lifecycle
\* specification.
MaxStarts == 2
\* Largest value of performance.now() the clock reaches in the lifecycle
\* specification, and the options its startListening calls pass
\* (opts.minStableMs, opts.rearmMs, opts.autoRecoveryTimeoutMs), in ms.
MaxNow == 1
LifeMinStableMs == 1
LifeRearmMs == 1
LifeAutoRecoveryMs == 0
\* Largest clock value of the detection specification, and the options its
\* startListening call passes (opts.minStableMs, opts.rearmMs), in ms.
MaxNowDetect == 8
DetMinStableMs == 2
DetRearmMs == 2
\* Largest clock value of the recovery-trigger specification, and the
\* opts.autoRecoveryTimeoutMs its startListening call passes, in ms.
MaxNowTrigger == 3
TriggerAutoRecoveryMs == 2
\* Largest clock value of the dropout specification, and the options its
\* startListening call passes (opts.minStableMs; opts.rearmMs is this one
\* or 0), in ms.
MaxNowRearm == 4
RearmMinStableMs == 1
RearmSpanMs == 2
\* Largest clock value of the quantization specification, and the
\* opts.minStableMs its startListening call passes, in ms.
MaxNowRange == 3
RangeMinStableMs == 1
\* Largest clock value of the capture-gap specification, and the
\* opts.minStableMs its startListening call passes, in ms.
MaxNowHold == 3
HoldMinStableMs == 2
\* getUserMedia calls issued in one behaviour of the stopped-session
\* specification, and the largest value its clock reaches, in ms.
StopMaxAcq == 2
MaxNowStop == 1
\* getUserMedia calls issued in one behaviour of the silence specification,
\* the largest value its clock reaches and the opts.autoRecoveryTimeoutMs
\* its startListening call passes, in ms.
StormMaxAcq == 3
MaxNowStorm == 5
StormAutoRecoveryMs == 1
\* The practice-page specification: target notes on the staff
\* (settings.notesPerLine), notes played in one behaviour, the largest value
\* its clock reaches and settings.repeatNoteBufferMs, in units of 100 ms.
PageNotesPerLine == 2
MaxPlays == 3
MaxNowPage == 5
PageRepeatBuffer == 2
\* The note-arithmetic specification: MIDI inputs range over
\* -MaxMidiIn .. MaxMidiIn, note octaves over MaxOctave - 1 .. MaxOctave.
MaxMidiIn == 14
MaxOctave == 4
\* Longest string handed to parseNote.
MaxStrLen == 5
\* The pitch-extraction specification: samples in a frame (2048 in the
\* program).
BufLen == 6

-----------------------------------------------------------------------------
\* Program constants.

DefaultMinStableMs == 250
DefaultRearmMs == 120
DefaultRearmRmsThresh == 12
DefaultAutoRecoveryTimeoutMs == 5000
\* getPitch: if (rms < 0.01) return null
SilenceRms == 10
\* tick: if (rms > 0.01) lastAudioDetectedAt = now
AudioPresenceRms == 10
\* getPitch: if (frequency < 50 || frequency > 2000) return null
MinFreqHz == 50
MaxFreqHz == 2000
\* getPitch: if (Math.abs(buffer[i]) > 0.02), in hundredths
TrimLevel == 2

-----------------------------------------------------------------------------
\* Note arithmetic (noteUtils).

LETTER_ORDER == <<"C", "D", "E", "F", "G", "A", "B">>

SEMITONES_FROM_C == [C |-> 0, D |-> 2, E |-> 4, F |-> 5, G |-> 7, A |-> 9, B |-> 11]

semitonesMap ==
  << [letter |-> "C", accidental |-> ""],  [letter |-> "C", accidental |-> "#"],
     [letter |-> "D", accidental |-> ""],  [letter |-> "D", accidental |-> "#"],
     [letter |-> "E", accidental |-> ""],  [letter |-> "F", accidental |-> ""],
     [letter |-> "F", accidental |-> "#"], [letter |-> "G", accidental |-> ""],
     [letter |-> "G", accidental |-> "#"], [letter |-> "A", accidental |-> ""],
     [letter |-> "A", accidental |-> "#"], [letter |-> "B", accidental |-> ""] >>

\* JavaScript a % b for b > 0: the sign of the result follows the dividend.
JsRem(a, b) == IF a >= 0 THEN a % b ELSE 0 - ((0 - a) % b)

\* Math.floor(a / b) for b > 0.
FloorDiv(a, b) == a \div b

noteToMidi(note) ==
  LET baseSemitones == SEMITONES_FROM_C[note.letter]
      accidentalOffset == IF note.accidental = "#" THEN 1
                          ELSE IF note.accidental = "b" THEN 0 - 1 ELSE 0
  IN (note.octave + 1) * 12 + baseSemitones + accidentalOffset

\* semitonesMap[semitone] is undefined for a negative semitone, and
\* destructuring undefined throws a TypeError.
midiToNoteThrows(midi) == JsRem(midi, 12) < 0

midiToNote(midi) ==
  LET octave == FloorDiv(midi, 12) - 1
      semitone == JsRem(midi, 12)
  IN IF midiToNoteThrows(midi) THEN [error |-> "TypeError"]
     ELSE [letter |-> semitonesMap[semitone + 1].letter,
           accidental |-> semitonesMap[semitone + 1].accidental,
           octave |-> octave]

\* Faulty variant: notes are compared by spelling.
notesEqual_BySpelling(a, b) == a = b

\* lines 133-135
notesEqual(a, b) == noteToMidi(a) = noteToMidi(b)

\* Faulty variant: Math.random() may return 1.
RandomOffsets_Closed(lowMidi, highMidi) == 0..(highMidi - lowMidi + 1)

\* line 141: the values of Math.floor(Math.random() * (highMidi - lowMidi + 1)),
\* Math.random() being at least 0 and less than 1.
RandomOffsets(lowMidi, highMidi) == 0..(highMidi - lowMidi)

\* lines 138-143.  r is Math.floor(Math.random() * (highMidi - lowMidi + 1)),
\* one of RandomOffsets(lowMidi, highMidi).
randomNoteInRange(lowNote, highNote, r) ==
  LET lowMidi == noteToMidi(lowNote)
      highMidi == noteToMidi(highNote)
      randomMidi == lowMidi + r
  IN midiToNote(randomMidi)

\* The page's call randomNoteInRange(low, high, includeAccidentals,
\* avoidRepetition, prevNote) (Index.tsx lines 57-63 and 99-105): the function
\* declares two parameters, so the other three arguments are dropped.
randomNoteInRangeCall(lowNote, highNote, incl, avoid, prevNote, r) ==
  randomNoteInRange(lowNote, highNote, r)

\* Faulty variant: the position counts semitones from B4.
getStaffPosition_Chromatic(note) == noteToMidi(note) - 71

\* lines 160-171; LETTER_ORDER.indexOf counts from 0.
getStaffPosition(note) ==
  LET noteIndex == CHOOSE i \in 0..6 : LETTER_ORDER[i + 1] = note.letter
      b4Index == CHOOSE i \in 0..6 : LETTER_ORDER[i + 1] = "B"
      octaveDiff == note.octave - 4
      letterDiff == noteIndex - b4Index
  IN octaveDiff * 7 + letterDiff

\* settings.ts lines 75-81: the MIDI value is rebuilt from the octave and the
\* letter's own table; table[letter] || 0 is the table's entry (0 for C), and
\* the accidental is not read.
validateNoteRange(lowest, highest) ==
  LET lowMidi == (lowest.octave + 1) * 12 + SEMITONES_FROM_C[lowest.letter]
      highMidi == (highest.octave + 1) * 12 + SEMITONES_FROM_C[highest.letter]
  IN lowMidi < highMidi

-----------------------------------------------------------------------------
\* parseNote (noteUtils lines 94-130).  A string is the sequence of its
\* characters; "U+266F" and "U+266D" stand for the sharp and the flat sign.

UpperCase ==
  << "A", "B", "C", "D", "E", "F", "G", "H", "I", "J", "K", "L", "M",
     "N", "O", "P", "Q", "R", "S", "T", "U", "V", "W", "X", "Y", "Z" >>

LowerCase ==
  << "a", "b", "c", "d", "e", "f", "g", "h", "i", "j", "k", "l", "m",
     "n", "o", "p", "q", "r", "s", "t", "u", "v", "w", "x", "y", "z" >>

Digits == << "0", "1", "2", "3", "4", "5", "6", "7", "8", "9" >>

\* The position of character c in the sequence chars, 0 when it is not there.
IndexIn(chars, c) ==
  IF \E i \in 1..Len(chars) : chars[i] = c
  THEN CHOOSE i \in 1..Len(chars) : chars[i] = c
  ELSE 0

toLowerCase(c) ==
  IF IndexIn(UpperCase, c) > 0 THEN LowerCase[IndexIn(UpperCase, c)] ELSE c

toUpperCase(c) ==
  IF IndexIn(LowerCase, c) > 0 THEN UpperCase[IndexIn(LowerCase, c)] ELSE c

\* String.prototype.toLowerCase
StrToLower(str) == [i \in 1..Len(str) |-> toLowerCase(str[i])]

\* parseInt of one digit
parseInt(c) == IndexIn(Digits, c) - 1

SOLFEGE_MAP ==
  [C |-> <<"D", "o">>, D |-> <<"R", "e">>, E |-> <<"M", "i">>,
   F |-> <<"F", "a">>, G |-> <<"S", "o", "l">>, A |-> <<"L", "a">>,
   B |-> <<"S", "i">>]

\* The alternatives of the first group of each pattern:
\* (Do|Re|Mi|Fa|Sol|La|Si) and ([A-Ga-g]).
SolfegeNames ==
  << <<"D", "o">>, <<"R", "e">>, <<"M", "i">>, <<"F", "a">>,
     <<"S", "o", "l">>, <<"L", "a">>, <<"S", "i">> >>

LetterClass ==
  << <<"A">>, <<"B">>, <<"C">>, <<"D">>, <<"E">>, <<"F">>, <<"G">>,
     <<"a">>, <<"b">>, <<"c">>, <<"d">>, <<"e">>, <<"f">>, <<"g">> >>

\* The second group of both patterns.
AccidentalChars == {"U+266F", "U+266D", "#", "b"}

\* Faulty variant: the i flag is ignored.
CharMatches_Exact(c, p, ignoreCase) == c = p

\* A pattern character p matches c; under the i flag both are canonicalized
\* (upper-cased) first.
CharMatches(c, p, ignoreCase) ==
  IF ignoreCase THEN toUpperCase(c) = toUpperCase(p) ELSE c = p

\* str.match(/^(first)(accidental)?(\d)$/): the alternative of the first
\* group that str matches as a whole, 0 when it matches none.  No alternative
\* is a prefix of another, so at most one does.
MatchedAlternative(str, first, ignoreCase) ==
  LET fits(k) ==
        LET n == Len(first[k])
        IN /\ Len(str) \in {n + 1, n + 2}
           /\ \A i \in 1..n : CharMatches(str[i], first[k][i], ignoreCase)
           /\ Len(str) = n + 2 =>
                \E a \in AccidentalChars : CharMatches(str[n + 1], a, ignoreCase)
           /\ IndexIn(Digits, str[Len(str)]) > 0
  IN IF \E k \in 1..Len(first) : fits(k)
     THEN CHOOSE k \in 1..Len(first) : fits(k)
     ELSE 0

\* The groups of the match: [1] the name, [2] the accidental character (""
\* when the group did not take part), [3] the digit.
MatchGroups(str, n) ==
  [name |-> SubSeq(str, 1, n),
   accidental |-> IF Len(str) = n + 2 THEN str[n + 1] ELSE "",
   digit |-> str[Len(str)]]

\* Faulty variant: only the ASCII accidentals are recognized.
ParsedAccidental_AsciiOnly(accidental) ==
  IF accidental = "#" THEN "#" ELSE IF accidental = "b" THEN "b" ELSE ""

\* lines 109 and 124
ParsedAccidental(accidental) ==
  IF accidental = "U+266F" \/ accidental = "#" THEN "#"
  ELSE IF accidental = "U+266D" \/ accidental = "b" THEN "b"
  ELSE ""

\* lines 102-104: the first entry of SOLFEGE_MAP whose name equals
\* solfegeName when both are lower-cased, "" (undefined) when there is none.
SolfegeLetter(solfegeName) ==
  LET hit(i) == StrToLower(SOLFEGE_MAP[LETTER_ORDER[i]]) = StrToLower(solfegeName)
  IN IF \E i \in 1..Len(LETTER_ORDER) : hit(i)
     THEN LETTER_ORDER[CHOOSE i \in 1..Len(LETTER_ORDER) :
                         hit(i) /\ \A j \in 1..(i - 1) : ~hit(j)]
     ELSE ""

\* JavaScript null or undefined where a note is expected.
NoNote == [letter |-> "", accidental |-> "", octave |-> Null]

parseNote(noteStr) ==
  LET ks == MatchedAlternative(noteStr, SolfegeNames, TRUE)
      solfegeMatch == MatchGroups(noteStr, Len(SolfegeNames[ks]))
      kl == MatchedAlternative(noteStr, LetterClass, FALSE)
      letterMatch == MatchGroups(noteStr, 1)
  IN IF ks > 0 /\ SolfegeLetter(solfegeMatch.name) # ""
     THEN [letter |-> SolfegeLetter(solfegeMatch.name),
           accidental |-> ParsedAccidental(solfegeMatch.accidental),
           octave |-> parseInt(solfegeMatch.digit)]
     ELSE IF kl > 0
     THEN [letter |-> toUpperCase(letterMatch.name[1]),
           accidental |-> ParsedAccidental(letterMatch.accidental),
           octave |-> parseInt(letterMatch.digit)]
     ELSE NoNote

\* lines 80-84: the base name, the accidental sign and the octave's digits
\* (one digit for octaves 0 to 9).
formatNote(note, system) ==
  LET baseName == IF system = "solfege" THEN SOLFEGE_MAP[note.letter]
                  ELSE <<note.letter>>
      accidentalSymbol == IF note.accidental = "#" THEN <<"U+266F">>
                          ELSE IF note.accidental = "b" THEN <<"U+266D">>
                          ELSE <<>>
  IN baseName \o accidentalSymbol \o <<Digits[note.octave + 1]>>

-----------------------------------------------------------------------------
\* Pitch extraction as the frame loop sees it.

\* FirstHz[m - 18] is the first whole frequency that Math.round(69 + 12 *
\* Math.log2(freq / 440)) maps to MIDI m, for m = 19 .. 139: the frequencies
\* sampleRate / lag of a 2048-sample frame at 48 kHz lie between 24 Hz and
\* 24 kHz.
FirstHz ==
  << 24, 26, 27, 29, 30, 32, 34, 36, 38, 41, 43, 45, 48, 51, 54, 57, 60,
     64, 68, 72, 76, 81, 85, 90, 96, 101, 107, 114, 120, 128, 135, 143,
     152, 161, 170, 180, 191, 202, 214, 227, 240, 255, 270, 286, 303,
     321, 340, 360, 381, 404, 428, 453, 480, 509, 539, 571, 605, 641,
     679, 719, 762, 807, 855, 906, 960, 1017, 1078, 1142, 1210, 1281,
     1358, 1438, 1524, 1614, 1710, 1812, 1920, 2034, 2155, 2283, 2419,
     2562, 2715, 2876, 3047, 3228, 3420, 3624, 3839, 4067, 4309, 4565,
     4837, 5124, 5429, 5752, 6094, 6456, 6840, 7247, 7678, 8134, 8618,
     9130, 9673, 10248, 10858, 11503, 12187, 12912, 13680, 14493, 15355,
     16268, 17235, 18260, 19346, 20496, 21715, 23006, 24374 >>

freqToMidi(freq) ==
  CHOOSE m \in 19..138 : FirstHz[m - 18] <= freq /\ freq < FirstHz[m - 17]

\* A frame read from the analyser: its RMS level, and the frequency
\* sampleRate / peakIndex of its autocorrelation peak (Null when it has none).
\* getPitch applies the RMS gate before and the range check after.
\* Faulty variant: no frequency is out of range.
OutOfRangeHz_Never(frequency) == FALSE

\* line 60
OutOfRangeHz(frequency) == frequency < MinFreqHz \/ frequency > MaxFreqHz

getPitch(frame) ==
  IF frame.rms < SilenceRms THEN Null
  ELSE IF frame.peakHz = Null THEN Null
  ELSE IF OutOfRangeHz(frame.peakHz) THEN Null
  ELSE frame.peakHz

-----------------------------------------------------------------------------
\* getPitch (lines 28-62) on the samples of a frame.  A sample is a whole
\* number of hundredths of full scale, so the sums of products are exact.

RECURSIVE SumProducts(_, _, _)
\* x[1] * x[1 + lag] + ... + x[n] * x[n + lag]
SumProducts(x, lag, n) ==
  IF n = 0 THEN 0 ELSE x[n] * x[n + lag] + SumProducts(x, lag, n - 1)

\* lines 29-33: Math.sqrt(sum / size) < 0.01, both sides squared.  With
\* samples in hundredths and SilenceRms in thousandths the RMS is
\* 10 * sqrt(sum / size) thousandths.
BelowSilenceGate(buffer) ==
  100 * SumProducts(buffer, 0, Len(buffer)) < SilenceRms * SilenceRms * Len(buffer)

Abs(v) == IF v < 0 THEN 0 - v ELSE v

\* lines 34-40: the index (from 0) of the first sample above the trim level,
\* 0 when there is none.
TrimStart(buffer) ==
  IF \E i \in 1..Len(buffer) : Abs(buffer[i]) > TrimLevel
  THEN (CHOOSE i \in 1..Len(buffer) :
          /\ Abs(buffer[i]) > TrimLevel
          /\ \A j \in 1..(i - 1) : ~(Abs(buffer[j]) > TrimLevel)) - 1
  ELSE 0

\* line 41
Trimmed(buffer) == SubSeq(buffer, TrimStart(buffer) + 1, Len(buffer))

\* lines 43-48: autocorr[lag] for lag = 0 .. len - 1.
Autocorr(trimmed) ==
  [lag \in 0..(Len(trimmed) - 1) |->
     SumProducts(trimmed, lag, Len(trimmed) - lag)]

\* Faulty variant: the neighbours are not looked at.
IsNewPeak_NoNeighbours(autocorr, i, peak) == autocorr[i] > peak

\* line 52
IsNewPeak(autocorr, i, peak) ==
  /\ autocorr[i] > peak
  /\ autocorr[i] > autocorr[i - 1]
  /\ autocorr[i] > autocorr[i + 1]

RECURSIVE PeakScan(_, _, _, _, _)
\* lines 51-56: the loop from index i on, with the peak found so far.
PeakScan(autocorr, len, i, peak, peakIndex) ==
  IF ~(i < len - 1) THEN peakIndex
  ELSE IF IsNewPeak(autocorr, i, peak)
  THEN PeakScan(autocorr, len, i + 1, autocorr[i], i)
  ELSE PeakScan(autocorr, len, i + 1, peak, peakIndex)

\* lines 41-56: peakIndex after the loop, -1 when it found no peak.
PeakIndex(buffer) ==
  PeakScan(Autocorr(Trimmed(buffer)), Len(Trimmed(buffer)), 1, 0, 0 - 1)

\* Faulty variant: only the upper end of the range is checked.
FrequencyOutOfRange_UpperOnly(sampleRate, period) ==
  sampleRate > MaxFreqHz * period

\* line 60: frequency < 50 || frequency > 2000 for frequency = sampleRate /
\* period, both sides multiplied by the period.
FrequencyOutOfRange(sampleRate, period) ==
  sampleRate < MinFreqHz * period \/ sampleRate > MaxFreqHz * period

\* getPitch on the samples: the fundamentalPeriod whose frequency
\* sampleRate / fundamentalPeriod it returns, Null when it returns null.
getPitchPeriod(buffer, sampleRate) ==
  IF BelowSilenceGate(buffer) THEN Null
  ELSE IF PeakIndex(buffer) <= 0 THEN Null
  ELSE IF FrequencyOutOfRange(sampleRate, PeakIndex(buffer)) THEN Null
  ELSE PeakIndex(buffer)

-----------------------------------------------------------------------------
\* State.

VARIABLES
  \* module variables of micPitchDetector.ts
  audioContext,          \* "null", or "created" once the AudioContext exists
  analyser,              \* Null, or the acquisition that created the node
  keepAliveGain,         \* Null, or the acquisition that created the node
  mediaStream,           \* Null, or the acquisition that returned the stream
  rafId,                 \* Null, or a requestAnimationFrame handle
  callbackRef,           \* Null, or the startListening call that passed cb
  statusCallbackRef,     \* Null, or the startListening call that passed onStatus
  lastEmittedMidi,
  candidateMidi,
  candidateStartTs,
  minStableMs,
  lowRmsSince,
  rearmMs,
  rearmRmsThresh,
  lastAudioDetectedAt,
  autoRecoveryTimeoutMs,
  isRecovering,
  currentRmsLevel,
  \* environment
  now,                   \* performance.now()
  nAcq,                  \* getUserMedia calls issued so far
  calls,                 \* the async executions of startListening / restartMicrophone
  track,                 \* readyState of each acquired stream's audio track
  onended,               \* streams whose track has the onended handler set
  analyserOut,           \* analysers whose output is connected
  gainOut,               \* keep-alive gains whose output is connected
  pending,               \* requestAnimationFrame handles whose callback is pending
  \* what the last step delivered
  onNoteCalls,           \* calls of a note callback made by the last step
  onStatusCalls,         \* calls of a status callback made by the last step
  thrown,                \* the error the last step threw or rejected with
  \* observers (history of the run, no effect on the program)
  obs

detVars == <<lastEmittedMidi, candidateMidi, candidateStartTs, lowRmsSince>>
optVars == <<minStableMs, rearmMs, rearmRmsThresh>>
graphVars == <<audioContext, analyser, keepAliveGain, analyserOut, gainOut>>
streamVars == <<mediaStream, track, onended>>

progVars ==
  <<audioContext, analyser, keepAliveGain, mediaStream, rafId, callbackRef,
    statusCallbackRef, lastEmittedMidi, candidateMidi, candidateStartTs,
    minStableMs, lowRmsSince, rearmMs, rearmRmsThresh, lastAudioDetectedAt,
    autoRecoveryTimeoutMs, isRecovering, currentRmsLevel>>

envVars == <<now, nAcq, calls, track, onended, analyserOut, gainOut, pending>>

vars == <<progVars, envVars, onNoteCalls, onStatusCalls, thrown, obs>>

Acqs == 1..MaxAcq

\* An execution of an async function: which one, where it is suspended, the
\* options its closure holds, whether tick chained .then(requestAnimationFrame)
\* to it, and (history) whether stopListening ran while it was pending with no
\* startListening since.
NoCall ==
  [kind |-> "none", pc |-> "none", optMinStableMs |-> Null, optRearmMs |-> Null,
   thenTick |-> FALSE, orphan |-> FALSE]

\* The module as loaded: lines 7-26 of micPitchDetector.ts.
ModuleInit ==
  /\ audioContext = "null"
  /\ analyser = Null
  /\ keepAliveGain = Null
  /\ mediaStream = Null
  /\ rafId = Null
  /\ callbackRef = Null
  /\ statusCallbackRef = Null
  /\ lastEmittedMidi = Null
  /\ candidateMidi = Null
  /\ candidateStartTs = Null
  /\ minStableMs = DefaultMinStableMs
  /\ lowRmsSince = Null
  /\ rearmMs = DefaultRearmMs
  /\ rearmRmsThresh = DefaultRearmRmsThresh
  /\ lastAudioDetectedAt = 0
  /\ autoRecoveryTimeoutMs = DefaultAutoRecoveryTimeoutMs
  /\ isRecovering = FALSE
  /\ currentRmsLevel = 0

EnvInit ==
  /\ now = 0
  /\ nAcq = 0
  /\ calls = [i \in Acqs |-> NoCall]
  /\ track = [i \in Acqs |-> "none"]
  /\ onended = {}
  /\ analyserOut = {}
  /\ gainOut = {}
  /\ pending = {}
  /\ onNoteCalls = <<>>
  /\ onStatusCalls = <<>>
  /\ thrown = "none"

-----------------------------------------------------------------------------
\* Helpers of the environment.

\* requestAnimationFrame returns a handle no pending callback has.  Handles
\* are only compared for identity and rafId, the one place that keeps a
\* handle, is overwritten by every call, so the smallest handle not pending
\* stands for the browser's fresh one.
NewHandle(inUse) ==
  CHOOSE h \in 1..(MaxAcq + 1) :
    /\ h \notin inUse
    /\ \A j \in 1..(h - 1) : j \in inUse

\* mediaStream.getTracks().forEach(t => t.stop()) on stream s.
StopTracks(trk, s) ==
  IF s = Null THEN trk ELSE [trk EXCEPT ![s] = "ended"]

\* Faulty variant: the track is taken to be live whatever its state.
isTrackAlive_Always == TRUE

isTrackAlive ==
  IF mediaStream = Null THEN FALSE ELSE track[mediaStream] = "live"

StatusCall(status, level) ==
  IF statusCallbackRef = Null THEN <<>>
  ELSE << [cb |-> statusCallbackRef, status |-> status, level |-> level] >>

InFlight(id) == calls[id].pc \in {"gum", "resume"}

RecoveriesInFlight == {id \in Acqs : calls[id].kind = "restart" /\ InFlight(id)}

-----------------------------------------------------------------------------
\* restartMicrophone, up to its first await (lines 77-98), for a call made
\* with callbackRef set.  trk is the tracks' state when it is called.

RestartBegin(thenTick, trk, level) ==
  /\ nAcq < MaxAcq
  /\ isRecovering' = TRUE
  /\ onStatusCalls' = StatusCall("recovering", level)
  /\ track' = StopTracks(trk, mediaStream)
  /\ analyserOut' = analyserOut \ {analyser}
  /\ gainOut' = gainOut \ {keepAliveGain}
  /\ nAcq' = nAcq + 1
  /\ calls' = [calls EXCEPT ![nAcq + 1] =
                 [NoCall EXCEPT !.kind = "restart", !.pc = "gum",
                                !.thenTick = thenTick]]

-----------------------------------------------------------------------------
\* tick (lines 139-209).

\* lines 180-190: the re-arm timer.
IsLowRms(rms) == rms < rearmRmsThresh

\* Faulty variant: the re-arm fires only on the frame at which the timer
\* reads exactly rearmMs.
RearmFires_Once(rms, t) ==
  IsLowRms(rms) /\ lowRmsSince # Null /\ t - lowRmsSince = rearmMs

RearmFires(rms, t) ==
  IsLowRms(rms) /\ lowRmsSince # Null /\ t - lowRmsSince >= rearmMs

\* Faulty variant: the re-arm clears nothing.
AfterRearm_Keeps(fires, v) == v

\* lines 184-186: what the re-arm leaves of a detection variable.
AfterRearm(fires, v) == IF fires THEN Null ELSE v

\* Faulty variant: a frame without signal keeps the candidate.
AfterNoSignal_Keeps(v) == v

\* lines 205-206: what a frame without signal leaves of the candidate.
AfterNoSignal(v) == Null

\* Faulty variant: a frame at or above the threshold leaves the timer running.
NextLowRmsSince_Sticky(rms, t) ==
  IF IsLowRms(rms)
  THEN (IF lowRmsSince = Null THEN t ELSE lowRmsSince)
  ELSE lowRmsSince

\* lines 180-182 and 188-190: the low-signal timer after the frame.
NextLowRmsSince(rms, t) ==
  IF IsLowRms(rms)
  THEN (IF lowRmsSince = Null THEN t ELSE lowRmsSince)
  ELSE Null

\* Faulty variant: the stability window must be exceeded, not reached.
StableLongEnough_Strict(cs, t) == cs # Null /\ t - cs > minStableMs

\* line 198
StableLongEnough(cs, t) == cs # Null /\ t - cs >= minStableMs

\* Faulty variant: the emission does not look at the last emitted value.
DiffersFromLastEmitted_Always(le, midi) == TRUE

\* line 199
DiffersFromLastEmitted(le, midi) == le # midi

\* lines 157-164 and 166-175: the frame hands over to restartMicrophone and
\* returns; the frame loop continues from the promise's .then.
TickRecover(h, rms) ==
  /\ RestartBegin(TRUE, track, rms)
  /\ currentRmsLevel' = rms
  /\ pending' = pending \ {h}
  /\ onNoteCalls' = <<>>
  /\ thrown' = "none"
  /\ UNCHANGED <<audioContext, analyser, keepAliveGain, mediaStream, rafId,
                 callbackRef, statusCallbackRef, detVars, optVars,
                 lastAudioDetectedAt, autoRecoveryTimeoutMs, now, onended>>

\* line 169
SilenceTimedOut(rms, t) ==
  /\ ~(rms > AudioPresenceRms)
  /\ ~isRecovering
  /\ t - lastAudioDetectedAt > autoRecoveryTimeoutMs

\* lines 177-208: status report, re-arm timer, candidate tracking, emission.
TickProcess(h, frame) ==
  LET rms == frame.rms
      fires == RearmFires(rms, now)
      le1 == AfterRearm(fires, lastEmittedMidi)
      cm1 == AfterRearm(fires, candidateMidi)
      cs1 == AfterRearm(fires, candidateStartTs)
      freq == getPitch(frame)
      midi == IF freq = Null THEN Null ELSE freqToMidi(freq)
      newCandidate == freq # Null /\ (cm1 = Null \/ midi # cm1)
      emit == /\ freq # Null
              /\ ~newCandidate
              /\ StableLongEnough(cs1, now)
              /\ DiffersFromLastEmitted(le1, midi)
      \* callbackRef(midiToNote(midi)) throws before line 208 is reached
      throws == emit /\ midiToNoteThrows(midi)
      h2 == NewHandle(pending \ {h})
  IN /\ currentRmsLevel' = rms
     /\ lastAudioDetectedAt' = IF rms > AudioPresenceRms THEN now
                               ELSE lastAudioDetectedAt
     /\ onStatusCalls' =
          StatusCall(IF isRecovering THEN "recovering" ELSE "listening", rms)
     /\ lowRmsSince' = NextLowRmsSince(rms, now)
     /\ candidateMidi' = IF freq = Null THEN AfterNoSignal(cm1)
                         ELSE IF newCandidate THEN midi ELSE cm1
     /\ candidateStartTs' = IF freq = Null THEN AfterNoSignal(cs1)
                            ELSE IF newCandidate THEN now ELSE cs1
     /\ lastEmittedMidi' = IF emit THEN midi ELSE le1
     /\ onNoteCalls' = IF emit /\ ~throws
                       THEN << [cb |-> callbackRef, note |-> midiToNote(midi)] >>
                       ELSE <<>>
     /\ thrown' = IF throws THEN "TypeError" ELSE "none"
     /\ rafId' = IF throws THEN rafId ELSE h2
     /\ pending' = IF throws THEN pending \ {h} ELSE (pending \ {h}) \cup {h2}
     /\ UNCHANGED <<audioContext, analyser, keepAliveGain, mediaStream,
                    callbackRef, statusCallbackRef, optVars,
                    autoRecoveryTimeoutMs, isRecovering, now, nAcq, calls,
                    track, onended, analyserOut, gainOut>>

\* The frame callback with handle h runs and reads frame from the analyser.
Tick(h, frame) ==
  /\ h \in pending
  /\ IF analyser = Null \/ audioContext = "null" \/ callbackRef = Null
     THEN /\ pending' = pending \ {h}
          /\ onNoteCalls' = <<>>
          /\ thrown' = "none"
          /\ onStatusCalls' = <<>>
          /\ UNCHANGED <<progVars, now, nAcq, calls, track, onended,
                         analyserOut, gainOut>>
     ELSE IF ~isTrackAlive /\ ~isRecovering
     THEN TickRecover(h, frame.rms)
     ELSE IF SilenceTimedOut(frame.rms, now)
     THEN TickRecover(h, frame.rms)
     ELSE TickProcess(h, frame)

-----------------------------------------------------------------------------
\* startListening (lines 211-266).

Opt(v, default) == IF v = Null THEN default ELSE v

\* lines 221-228: the synchronous part, up to await getUserMedia.
StartCall(optMinStable, optRearm, optAuto) ==
  /\ nAcq < MaxAcq
  /\ callbackRef' = nAcq + 1
  /\ statusCallbackRef' = nAcq + 1
  /\ autoRecoveryTimeoutMs' = Opt(optAuto, DefaultAutoRecoveryTimeoutMs)
  /\ audioContext' = "created"
  /\ nAcq' = nAcq + 1
  /\ calls' = [i \in Acqs |->
                 IF i = nAcq + 1
                 THEN [NoCall EXCEPT !.kind = "start", !.pc = "gum",
                                     !.optMinStableMs = optMinStable,
                                     !.optRearmMs = optRearm]
                 ELSE [calls[i] EXCEPT !.orphan = FALSE]]
  /\ onNoteCalls' = <<>>
  /\ thrown' = "none"
  /\ onStatusCalls' = <<>>
  /\ UNCHANGED <<analyser, keepAliveGain, mediaStream, rafId, detVars, optVars,
                 lastAudioDetectedAt, isRecovering, currentRmsLevel, now,
                 track, onended, analyserOut, gainOut, pending>>

\* lines 226-252 (startListening) and 96-120 (restartMicrophone): the stream
\* is stored, the analyser and the keep-alive gain are built and connected,
\* and the track's onended handler is set.  Only startListening disconnects
\* the previous keep-alive gain here.
Acquire(id) ==
  /\ mediaStream' = id
  /\ track' = [track EXCEPT ![id] = "live"]
  /\ analyser' = id
  /\ keepAliveGain' = id
  /\ analyserOut' = analyserOut \cup {id}
  /\ gainOut' = IF calls[id].kind = "start"
                THEN (gainOut \ {keepAliveGain}) \cup {id}
                ELSE gainOut \cup {id}
  /\ onended' = onended \cup {id}

Finished(id, pc) ==
  [calls EXCEPT ![id] = [NoCall EXCEPT !.kind = calls[id].kind, !.pc = pc,
                                       !.orphan = calls[id].orphan]]

\* lines 255-265
StartFinish(id) ==
  LET live == IF rafId # Null THEN pending \ {rafId} ELSE pending
      h2 == NewHandle(live)
  IN /\ lastEmittedMidi' = Null
     /\ candidateMidi' = Null
     /\ candidateStartTs' = Null
     /\ minStableMs' = Opt(calls[id].optMinStableMs, DefaultMinStableMs)
     /\ rearmMs' = Opt(calls[id].optRearmMs, DefaultRearmMs)
     /\ rearmRmsThresh' = DefaultRearmRmsThresh
     /\ lowRmsSince' = Null
     /\ lastAudioDetectedAt' = now
     /\ isRecovering' = FALSE
     /\ rafId' = h2
     /\ pending' = live \cup {h2}
     /\ onStatusCalls' = <<>>
     /\ calls' = Finished(id, "done")

\* rafId = requestAnimationFrame(tick), chained by tick to the promise of
\* restartMicrophone (lines 160-162, 171-173); it runs whatever the promise
\* resolves to.
ThenTick(id) ==
  IF calls[id].thenTick
  THEN LET h2 == NewHandle(pending)
       IN rafId' = h2 /\ pending' = pending \cup {h2}
  ELSE UNCHANGED <<rafId, pending>>

\* Faulty variant: a completed recovery leaves the silence reference alone.
AudioRefAfterRestart_Stale(t) == lastAudioDetectedAt

\* line 126: lastAudioDetectedAt = performance.now().
AudioRefAfterRestart(t) == t

\* lines 126-130
RestartFinish(id) ==
  /\ lastAudioDetectedAt' = AudioRefAfterRestart(now)
  /\ isRecovering' = FALSE
  /\ onStatusCalls' = StatusCall("listening", currentRmsLevel)
  /\ ThenTick(id)
  /\ calls' = Finished(id, "done")
  /\ UNCHANGED <<detVars, optVars>>

Finish(id) ==
  IF calls[id].kind = "start" THEN StartFinish(id) ELSE RestartFinish(id)

\* getUserMedia of call id resolves with a new stream.  ctxState is
\* audioContext.state as read at lines 122 and 254: the browser suspends and
\* resumes the context on its own (and tick asks it to resume, line 144), so
\* the value read is the environment's choice.
GumResolve(id, ctxState) ==
  /\ calls[id].pc = "gum"
  /\ Acquire(id)
  /\ IF ctxState = "suspended"
     THEN /\ calls' = [calls EXCEPT ![id].pc = "resume"]
          /\ onStatusCalls' = <<>>
          /\ UNCHANGED <<rafId, pending, detVars, optVars, lastAudioDetectedAt,
                         isRecovering>>
     ELSE Finish(id)
  /\ onNoteCalls' = <<>>
  /\ thrown' = "none"
  /\ UNCHANGED <<audioContext, callbackRef, statusCallbackRef,
                 autoRecoveryTimeoutMs, currentRmsLevel, now, nAcq>>

\* await audioContext.resume() of call id resolves (lines 122-124, 254).
ResumeResolve(id) ==
  /\ calls[id].pc = "resume"
  /\ Finish(id)
  /\ onNoteCalls' = <<>>
  /\ thrown' = "none"
  /\ UNCHANGED <<audioContext, analyser, keepAliveGain, mediaStream, callbackRef,
                 statusCallbackRef, autoRecoveryTimeoutMs, currentRmsLevel,
                 now, nAcq, track, onended, analyserOut, gainOut>>

\* Faulty variant: startListening catches the error of getUserMedia.
StartRejection_Swallowed(err) == "none"

\* lines 226-228: startListening has no try around its await, so the promise
\* it returned rejects with the error getUserMedia rejected with.
StartRejection(err) == err

\* getUserMedia of call id rejects: startListening rejects to its caller
\* (nothing catches it); restartMicrophone runs its catch block (131-136).
GumReject(id) ==
  /\ calls[id].pc = "gum"
  /\ calls' = Finished(id, "failed")
  /\ IF calls[id].kind = "start"
     THEN /\ onStatusCalls' = <<>>
          /\ thrown' = StartRejection("NotAllowedError")
          /\ UNCHANGED <<isRecovering, rafId, pending>>
     ELSE /\ isRecovering' = FALSE
          /\ onStatusCalls' = StatusCall("error", 0)
          /\ thrown' = "none"
          /\ ThenTick(id)
  /\ onNoteCalls' = <<>>
  /\ UNCHANGED <<audioContext, analyser, keepAliveGain, mediaStream,
                 callbackRef, statusCallbackRef, detVars, optVars,
                 lastAudioDetectedAt, autoRecoveryTimeoutMs, currentRmsLevel,
                 now, nAcq, track, onended, analyserOut, gainOut>>

-----------------------------------------------------------------------------
\* stopListening (lines 268-293).

\* Faulty variant: the guards are dropped.
Guarded_Dropped(x) == TRUE

\* `if (x)` at lines 269, 273, 277 and 281.
Guarded(x) == x # Null

\* The statement of stopListening that throws, 0 when none does: calling
\* getTracks() or disconnect() on null is a TypeError, which the guards rule
\* out; the statements after a throw do not run.
StopThrowsAt ==
  IF Guarded(mediaStream) /\ mediaStream = Null THEN 2
  ELSE IF Guarded(analyser) /\ analyser = Null THEN 3
  ELSE IF Guarded(keepAliveGain) /\ keepAliveGain = Null THEN 4
  ELSE 0

\* Faulty variant: stopListening leaves the callback registered.
ClearedRef_Kept(ref) == ref

\* lines 285-286: callbackRef = null; statusCallbackRef = null.
ClearedRef(ref) == Null

StopListening ==
  LET at == StopThrowsAt
      Runs(k) == at = 0 \/ k < at
  IN
  /\ thrown' = IF at = 0 THEN "none" ELSE "TypeError"
  /\ pending' = IF Guarded(rafId) THEN pending \ {rafId} ELSE pending
  /\ rafId' = IF Guarded(rafId) THEN Null ELSE rafId
  /\ track' = IF Runs(2) /\ Guarded(mediaStream)
              THEN StopTracks(track, mediaStream) ELSE track
  /\ mediaStream' = IF Runs(2) /\ Guarded(mediaStream) THEN Null ELSE mediaStream
  /\ analyserOut' = IF Runs(3) /\ Guarded(analyser)
                    THEN analyserOut \ {analyser} ELSE analyserOut
  /\ analyser' = IF Runs(3) /\ Guarded(analyser) THEN Null ELSE analyser
  /\ gainOut' = IF Runs(4) /\ Guarded(keepAliveGain)
                THEN gainOut \ {keepAliveGain} ELSE gainOut
  /\ keepAliveGain' = IF Runs(4) /\ Guarded(keepAliveGain) THEN Null
                      ELSE keepAliveGain
  /\ IF at = 0
     THEN /\ callbackRef' = ClearedRef(callbackRef)
          /\ statusCallbackRef' = ClearedRef(statusCallbackRef)
          /\ lastEmittedMidi' = Null
          /\ candidateMidi' = Null
          /\ candidateStartTs' = Null
          /\ lowRmsSince' = Null
          /\ isRecovering' = FALSE
          /\ currentRmsLevel' = 0
     ELSE UNCHANGED <<callbackRef, statusCallbackRef, detVars, isRecovering,
                      currentRmsLevel>>
  /\ calls' = [i \in Acqs |->
                 IF calls[i].kind = "restart" /\ InFlight(i)
                 THEN [calls[i] EXCEPT !.orphan = TRUE]
                 ELSE calls[i]]
  /\ onNoteCalls' = <<>>
  /\ onStatusCalls' = <<>>
  /\ UNCHANGED <<audioContext, optVars, lastAudioDetectedAt,
                 autoRecoveryTimeoutMs, now, nAcq, onended>>

-----------------------------------------------------------------------------
\* The environment.

\* The live track of stream s ends (device unplugged, permission revoked):
\* readyState becomes "ended" and the ended event fires in the same task, so
\* the onended handler (lines 117-120, 249-252) runs restartMicrophone, which
\* returns at line 78 when callbackRef is null.
TrackEnded(s) ==
  /\ track[s] = "live"
  /\ IF s \in onended /\ callbackRef # Null
     THEN RestartBegin(FALSE, [track EXCEPT ![s] = "ended"], currentRmsLevel)
     ELSE /\ track' = [track EXCEPT ![s] = "ended"]
          /\ onStatusCalls' = <<>>
          /\ UNCHANGED <<isRecovering, analyserOut, gainOut, nAcq, calls>>
  /\ onNoteCalls' = <<>>
  /\ thrown' = "none"
  /\ UNCHANGED <<audioContext, analyser, keepAliveGain, mediaStream, rafId,
                 callbackRef, statusCallbackRef, detVars, optVars,
                 lastAudioDetectedAt, autoRecoveryTimeoutMs, currentRmsLevel,
                 now, onended, pending>>

\* Time passes.
Advance(limit) ==
  /\ now < limit
  /\ now' = now + 1
  /\ onNoteCalls' = <<>>
  /\ thrown' = "none"
  /\ onStatusCalls' = <<>>
  /\ UNCHANGED <<progVars, nAcq, calls, track, onended, analyserOut, gainOut,
                 pending>>

-----------------------------------------------------------------------------
\* The lifecycle specification: every interleaving of the public entry
\* points, the frame callbacks and the environment's events.

LifeFrames ==
  { [rms |-> 0, peakHz |-> Null], [rms |-> 20, peakHz |-> 262] }

\* Observer of the lifecycle: how many stopListening calls the last steps
\* were (up to 2).
ObsInit == [stopsInRow |-> 0]

Observe(stopped) ==
  obs' = [stopsInRow |-> IF ~stopped THEN 0
                         ELSE IF obs.stopsInRow = 0 THEN 1 ELSE 2]

Init == ModuleInit /\ EnvInit /\ obs = ObsInit

\* The caller calls startListening at most MaxStarts times.
LifeStart ==
  /\ nAcq < LifeMaxAcq
  /\ Cardinality({i \in Acqs : calls[i].kind = "start"}) < MaxStarts
  /\ StartCall(LifeMinStableMs, LifeRearmMs, LifeAutoRecoveryMs)
  /\ Observe(FALSE)

LifeStop == StopListening /\ Observe(TRUE)

LifeTick ==
  \E h \in pending, f \in LifeFrames :
    Tick(h, f) /\ nAcq' <= LifeMaxAcq /\ Observe(FALSE)

LifeGumResolve ==
  \E id \in Acqs, ctxState \in {"running", "suspended"} :
    GumResolve(id, ctxState) /\ Observe(FALSE)

LifeGumReject ==
  \E id \in Acqs :
    GumReject(id) /\ Observe(FALSE)

LifeResumeResolve ==
  \E id \in Acqs : ResumeResolve(id) /\ Observe(FALSE)

LifeTrackEnded ==
  \E s \in Acqs : TrackEnded(s) /\ nAcq' <= LifeMaxAcq /\ Observe(FALSE)

LifeAdvance == Advance(MaxNow) /\ Observe(FALSE)

Next ==
  \/ LifeStart
  \/ LifeStop
  \/ LifeTick
  \/ LifeGumResolve
  \/ LifeGumReject
  \/ LifeResumeResolve
  \/ LifeTrackEnded
  \/ LifeAdvance

Spec == Init /\ [][Next]_vars

-----------------------------------------------------------------------------
\* Claims on the lifecycle (checked under Spec).

LiveStreams == {s \in Acqs : track[s] = "live"}

\* What stopListening leaves of the module's state (lines 269-292).
IsStopped ==
  /\ rafId = Null
  /\ mediaStream = Null
  /\ analyser = Null
  /\ keepAliveGain = Null
  /\ callbackRef = Null
  /\ statusCallbackRef = Null
  /\ lastEmittedMidi = Null
  /\ candidateMidi = Null
  /\ candidateStartTs = Null
  /\ lowRmsSince = Null
  /\ isRecovering = FALSE
  /\ currentRmsLevel = 0

\* C4: at no time are two executions of restartMicrophone in flight (started
\* and not yet completed), whatever the interleaving of frame callbacks,
\* track-ended notifications, startListening calls and completions of
\* microphone acquisition.
C4_OneRecoveryInFlight == Cardinality(RecoveriesInFlight) <= 1

\* C5: when stopListening ran while a recovery's getUserMedia was pending
\* (and startListening has not been called since), the completed acquisition
\* is discarded: no stream, analyser or gain is stored, the acquired track is
\* not live, and no frame callback is scheduled.
C5_StoppedRecoveryIsDiscarded ==
  \A id \in Acqs :
    (calls[id].kind = "restart" /\ calls[id].orphan
       /\ calls[id].pc \in {"resume", "done"})
    => /\ mediaStream = Null
       /\ analyser = Null
       /\ keepAliveGain = Null
       /\ track[id] # "live"
       /\ pending = {}

\* C8: the module never has two acquired streams with live tracks.
C8_AtMostOneLiveStream == Cardinality(LiveStreams) <= 1

\* C9: right after stopListening returns, no stream acquired since the module
\* was loaded has a live track, the analyser and the keep-alive gain are
\* cleared, no frame callback is pending, and the callbacks and the
\* detection state are cleared.
C9_StopReleasesEverything ==
  obs.stopsInRow >= 1 =>
    /\ LiveStreams = {}
    /\ pending = {}
    /\ IsStopped

\* C10: stopListening raises no error in any state and leaves the stopped
\* state; called in the stopped state (nothing running, or right after
\* another stopListening) it changes nothing.
C10_StopIsIdempotent ==
  [][ obs'.stopsInRow >= 1 =>
        /\ thrown' = "none"
        /\ IsStopped'
        /\ (IsStopped => UNCHANGED <<progVars, envVars>>) ]_vars

\* C10 witness: stopListening has been called twice in a row on a session
\* that had a stream.
C10_Witness ==
  /\ obs.stopsInRow = 2
  /\ \E s \in Acqs : track[s] = "ended"
  /\ thrown = "none"

-----------------------------------------------------------------------------
\* The track-ended scenario: one startListening call (no autoRecoveryTimeoutMs
\* option, so the silence timeout stays at its default and does not fire),
\* frames, and a single track-ended notification once the session listens.

\* Observers: track-ended notifications so far, executions of
\* restartMicrophone begun, whether a re-acquisition failed, whether a
\* getUserMedia call was issued after that failure, and the statuses the
\* status callback received (a repeated status is kept once).
TrackEndObsInit ==
  [ended |-> 0, nRecov |-> 0, failed |-> FALSE, retried |-> FALSE,
   log |-> <<>>]

ObserveTrackEnd(endedNow, failedNow) ==
  LET status == onStatusCalls'[1].status
      began == nAcq' > nAcq /\ calls'[nAcq'].kind = "restart"
  IN obs' = [ended |-> IF endedNow THEN obs.ended + 1 ELSE obs.ended,
             nRecov |-> IF began THEN obs.nRecov + 1 ELSE obs.nRecov,
             failed |-> obs.failed \/ failedNow,
             retried |-> obs.retried \/ (obs.failed /\ nAcq' > nAcq),
             log |-> IF onStatusCalls' = <<>> THEN obs.log
                     ELSE IF obs.log # <<>> /\ obs.log[Len(obs.log)] = status
                     THEN obs.log
                     ELSE Append(obs.log, status)]

TrackEndInit == ModuleInit /\ EnvInit /\ obs = TrackEndObsInit

TrackEndStart ==
  /\ nAcq = 0
  /\ StartCall(LifeMinStableMs, LifeRearmMs, Null)
  /\ ObserveTrackEnd(FALSE, FALSE)

TrackEndTick ==
  \E h \in pending, f \in LifeFrames :
    Tick(h, f) /\ ObserveTrackEnd(FALSE, FALSE)

TrackEndGumResolve ==
  \E id \in Acqs, ctxState \in {"running", "suspended"} :
    GumResolve(id, ctxState) /\ ObserveTrackEnd(FALSE, FALSE)

TrackEndGumReject ==
  \E id \in Acqs :
    /\ calls[id].kind = "restart"
    /\ GumReject(id)
    /\ ObserveTrackEnd(FALSE, TRUE)

TrackEndResumeResolve ==
  \E id \in Acqs : ResumeResolve(id) /\ ObserveTrackEnd(FALSE, FALSE)

TrackEndNotified ==
  /\ obs.ended = 0
  /\ calls[1].pc = "done"
  /\ \E s \in Acqs : TrackEnded(s) /\ ObserveTrackEnd(TRUE, FALSE)

TrackEndAdvance == Advance(MaxNow) /\ ObserveTrackEnd(FALSE, FALSE)

TrackEndNext ==
  \/ TrackEndStart
  \/ TrackEndTick
  \/ TrackEndGumResolve
  \/ TrackEndGumReject
  \/ TrackEndResumeResolve
  \/ TrackEndNotified
  \/ TrackEndAdvance

SpecTrackEnd == TrackEndInit /\ [][TrackEndNext]_vars

\* C6: once a recovery's re-acquisition has failed, the engine issues no
\* further getUserMedia call on its own (the caller does not call
\* startListening again in this scenario).
C6_NoRetryAfterFailedRecovery == ~obs.retried

\* The status sequences the claim allows once the track has ended: listening
\* (when a frame ran before), recovering, then listening or error.
AllowedStatusLogs ==
  { <<"recovering">>, <<"listening", "recovering">>,
    <<"recovering", "listening">>, <<"listening", "recovering", "listening">>,
    <<"recovering", "error">>, <<"listening", "recovering", "error">> }

\* C7: while listening, a single track-ended notification causes exactly one
\* recovery attempt, and the status callback sees listening, recovering, then
\* listening (re-acquisition succeeded) or error (it failed).
C7_OneRecoveryPerTrackEnd ==
  obs.ended = 1 => (obs.nRecov = 1 /\ obs.log \in AllowedStatusLogs)

\* The same when no re-acquisition fails.
C7_WhenAcquisitionSucceeds ==
  (obs.ended = 1 /\ ~obs.failed) =>
    (obs.nRecov = 1 /\ obs.log \in AllowedStatusLogs)

-----------------------------------------------------------------------------
\* The detection specification: one listening session (no recovery: the track
\* stays live and the silence timeout keeps its default) fed every sequence
\* of frames, at every spacing in time.

\* RMS below the extractor's gate, between the gate and the re-arm threshold,
\* and at the re-arm threshold; two frequencies that quantize to MIDI 60 and
\* one that quantizes to MIDI 69.
DetectFrames ==
  [rms : {5, 11, 12}, peakHz : {Null, 258, 262, 440}]

\* The MIDI value a frame quantizes to (Null when the extractor reports no
\* signal).
FrameMidi(frame) ==
  IF getPitch(frame) = Null THEN Null ELSE freqToMidi(getPitch(frame))

\* Observers of the session, computed from the frames fed and the notes
\* delivered alone:
\*   run, runMidi, runStart, runEmits: whether every frame of the session so
\*     far reported the same MIDI with RMS at or above the re-arm threshold
\*     ("valid"; "none" before the first frame, "broken" after any other
\*     frame), that MIDI, the time of the first frame, the notes delivered;
\*   lastT: the time of the last frame;
\*   lastOut, lastOutT: the MIDI of the last note delivered and the time of
\*     the frame that delivered it;
\*   lowStart: the time of the first frame of the current unbroken stretch of
\*     frames with RMS below the re-arm threshold;
\*   rearmed: since the last note, such a stretch has spanned rearmMs;
\*   renewStart: the time of the first frame of the current unbroken stretch
\*     of frames at or above the threshold reporting lastOut, once rearmed;
\*   reemitted: the note just delivered repeats lastOut after a re-arm.
DetectObsInit ==
  [run |-> "none", runMidi |-> Null, runStart |-> Null, runEmits |-> 0,
   lastT |-> Null, lastOut |-> Null, lastOutT |-> Null,
   lowStart |-> Null, rearmed |-> FALSE,
   renewStart |-> Null, reemitted |-> FALSE]

ObserveFrame(frame) ==
  LET t == now
      fm == FrameMidi(frame)
      low == frame.rms < rearmRmsThresh
      steady == ~low /\ fm # Null
      out == IF onNoteCalls' = <<>> THEN Null
             ELSE noteToMidi(onNoteCalls'[1].note)
      n == IF out = Null THEN 0 ELSE 1
      spanned == low /\ obs.lowStart # Null /\ t - obs.lowStart >= rearmMs
      rearmed2 == IF out # Null THEN FALSE
                  ELSE obs.rearmed \/ (spanned /\ obs.lastOut # Null)
      run2 == IF obs.run = "none" /\ steady THEN "valid"
              ELSE IF obs.run = "valid" /\ steady /\ fm = obs.runMidi
              THEN "valid"
              ELSE "broken"
  IN obs' = [run |-> run2,
             runMidi |-> IF run2 = "valid" THEN fm ELSE Null,
             runStart |-> IF run2 # "valid" THEN Null
                          ELSE IF obs.run = "none" THEN t ELSE obs.runStart,
             runEmits |-> IF run2 # "valid" THEN 0
                          ELSE IF obs.run = "none" THEN n
                          ELSE obs.runEmits + n,
             lastT |-> t,
             lastOut |-> IF out # Null THEN out ELSE obs.lastOut,
             lastOutT |-> IF out # Null THEN t ELSE obs.lastOutT,
             lowStart |-> IF ~low THEN Null
                          ELSE IF obs.lowStart = Null THEN t
                          ELSE obs.lowStart,
             rearmed |-> rearmed2,
             renewStart |-> IF rearmed2 /\ steady /\ fm = obs.lastOut
                            THEN (IF obs.renewStart = Null THEN t
                                  ELSE obs.renewStart)
                            ELSE Null,
             reemitted |-> out # Null /\ out = obs.lastOut /\ obs.rearmed]

DetectInit == ModuleInit /\ EnvInit /\ obs = DetectObsInit

\* The session's stability window is the bound or one millisecond less, so
\* that it is both equal to and shorter than the re-arm span.
DetectStart ==
  /\ nAcq = 0
  /\ \E ms \in {DetMinStableMs - 1, DetMinStableMs} :
       StartCall(ms, DetRearmMs, Null)
  /\ UNCHANGED obs

DetectGumResolve ==
  \E id \in Acqs, ctxState \in {"running", "suspended"} :
    GumResolve(id, ctxState) /\ UNCHANGED obs

DetectResumeResolve ==
  \E id \in Acqs : ResumeResolve(id) /\ UNCHANGED obs

DetectTick ==
  \E h \in pending, f \in DetectFrames : Tick(h, f) /\ ObserveFrame(f)

DetectAdvance == Advance(MaxNowDetect) /\ UNCHANGED obs

DetectNext ==
  \/ DetectStart
  \/ DetectGumResolve
  \/ DetectResumeResolve
  \/ DetectTick
  \/ DetectAdvance

SpecDetect == DetectInit /\ [][DetectNext]_vars

\* C1: in a session whose frames so far all quantize to the same MIDI value m
\* with RMS at or above the re-arm threshold, no note has been delivered while
\* the last frame is earlier than minStableMs after the first, and exactly one
\* (the first frame at or after that point delivers it, no later one does)
\* once it is not.
C1_Stabilization ==
  obs.run = "valid" =>
    obs.runEmits = (IF obs.lastT - obs.runStart >= minStableMs THEN 1 ELSE 0)

\* C1 witness: m has been held beyond minStableMs, with frames after the one
\* that delivered it.
C1_Witness ==
  /\ obs.run = "valid"
  /\ obs.runEmits = 1
  /\ obs.lastT - obs.runStart > minStableMs
  /\ onNoteCalls = <<>>

\* C2: every note delivered has a MIDI value different from lastEmittedMidi
\* as held when the frame arrives, and repeats the previous note delivered
\* only if frames with RMS below the re-arm threshold spanned rearmMs in
\* between.
C2_NoDuplicateEmission ==
  [][ \A i \in 1..Len(onNoteCalls') :
        LET m == noteToMidi(onNoteCalls'[i].note)
        IN /\ m # lastEmittedMidi
           /\ (m = obs.lastOut => obs.rearmed) ]_vars

\* C2 witness: m was delivered, a transient reading then restarted the
\* candidate, and m has since been held for minStableMs, without a re-arm,
\* up to the frame just processed, which delivered nothing.
C2_Witness ==
  /\ obs.lastOut # Null
  /\ ~obs.rearmed
  /\ lastEmittedMidi = obs.lastOut
  /\ candidateMidi = obs.lastOut
  /\ candidateStartTs # Null
  /\ candidateStartTs > obs.lastOutT
  /\ obs.lastT - candidateStartTs >= minStableMs
  /\ onNoteCalls = <<>>

\* C3: after m was delivered and low-RMS frames spanned rearmMs, an unbroken
\* stretch of frames reporting m (RMS at or above the re-arm threshold) never
\* reaches minStableMs without m having been delivered again.
C3_Rearm ==
  obs.renewStart # Null => obs.lastT - obs.renewStart < minStableMs

\* C3 witness: m has just been delivered a second time after a re-arm.
C3_Witness == obs.reemitted /\ onNoteCalls # <<>>

-----------------------------------------------------------------------------
\* The denial specification: the lifecycle without the clock, observed for
\* what follows a startListening call that the platform denies.

\* The module holds no capture session: no stream, no live track, no
\* acquisition in flight.
Idle ==
  /\ mediaStream = Null
  /\ LiveStreams = {}
  /\ \A i \in Acqs : ~InFlight(i)

\* Observers: the latest startListening call if it was made on an idle module
\* (Null otherwise); whether that call's getUserMedia was rejected; whether
\* the rejection reached the caller and scheduled no frame callback; whether
\* a getUserMedia call was issued after the rejection.
DenyObsInit ==
  [idleCall |-> Null, denied |-> FALSE, surfaced |-> FALSE, retried |-> FALSE]

ObserveDeny(started, rejected) ==
  obs' = IF started
         THEN [DenyObsInit EXCEPT !.idleCall = IF Idle THEN nAcq' ELSE Null]
         ELSE IF rejected # Null /\ rejected = obs.idleCall
         THEN [obs EXCEPT !.denied = TRUE,
                          !.surfaced = /\ thrown' = "NotAllowedError"
                                       /\ pending' = pending
                                       /\ rafId' = rafId]
         ELSE [obs EXCEPT !.retried = obs.retried \/ (obs.denied /\ nAcq' > nAcq)]

DenyInit == ModuleInit /\ EnvInit /\ obs = DenyObsInit

DenyStart ==
  /\ nAcq < LifeMaxAcq
  /\ Cardinality({i \in Acqs : calls[i].kind = "start"}) < MaxStarts
  /\ StartCall(LifeMinStableMs, LifeRearmMs, LifeAutoRecoveryMs)
  /\ ObserveDeny(TRUE, Null)

DenyStop == StopListening /\ ObserveDeny(FALSE, Null)

DenyTick ==
  \E h \in pending, f \in LifeFrames :
    Tick(h, f) /\ nAcq' <= LifeMaxAcq /\ ObserveDeny(FALSE, Null)

DenyGumResolve ==
  \E id \in Acqs, ctxState \in {"running", "suspended"} :
    GumResolve(id, ctxState) /\ ObserveDeny(FALSE, Null)

DenyGumReject ==
  \E id \in Acqs : GumReject(id) /\ ObserveDeny(FALSE, id)

DenyResumeResolve ==
  \E id \in Acqs : ResumeResolve(id) /\ ObserveDeny(FALSE, Null)

DenyTrackEnded ==
  \E s \in Acqs :
    TrackEnded(s) /\ nAcq' <= LifeMaxAcq /\ ObserveDeny(FALSE, Null)

DenyNext ==
  \/ DenyStart
  \/ DenyStop
  \/ DenyTick
  \/ DenyGumResolve
  \/ DenyGumReject
  \/ DenyResumeResolve
  \/ DenyTrackEnded

SpecDeny == DenyInit /\ [][DenyNext]_vars

-----------------------------------------------------------------------------
\* The recovery-trigger specification: one session with a short silence
\* timeout, its frames at every spacing in time, track-ended notifications,
\* and recoveries that succeed or fail.

\* RMS exactly at the audio-presence threshold, and just above it.
TriggerFrames ==
  { [rms |-> 10, peakHz |-> 262], [rms |-> 11, peakHz |-> 262] }

\* Observers, computed from the calls made and the frames fed:
\*   ref: the latest time a processed frame had RMS above the threshold,
\*     startListening completed, or a recovery completed successfully;
\*   frame: the frame the step just taken processed (NoFrame if it was not a
\*     frame that got past line 140);
\*   alive, recovering: isTrackAlive() and isRecovering when that frame came;
\*   elapsed: the time from ref to that frame;
\*   triggered: the frame called restartMicrophone;
\*   detKept: that frame left the detection state as it was and delivered
\*     no note.
\* No frame.
NoFrame == [rms |-> Null, peakHz |-> Null]

TriggerObsInit ==
  [ref |-> 0, frame |-> NoFrame, alive |-> FALSE, recovering |-> FALSE,
   elapsed |-> 0, triggered |-> FALSE, detKept |-> FALSE]

ObserveTrigger(frame) ==
  LET processed == frame # NoFrame /\ analyser # Null /\ audioContext # "null"
                     /\ callbackRef # Null
      completed == \E id \in Acqs : calls[id].pc # "done" /\ calls'[id].pc = "done"
  IN obs' = [ref |-> IF completed THEN now
                     ELSE IF processed /\ frame.rms > AudioPresenceRms THEN now
                     ELSE obs.ref,
             frame |-> IF processed THEN frame ELSE NoFrame,
             alive |-> /\ processed
                       /\ mediaStream # Null
                       /\ track[mediaStream] = "live",
             recovering |-> processed /\ isRecovering,
             elapsed |-> IF processed THEN now - obs.ref ELSE 0,
             triggered |-> processed /\ nAcq' > nAcq,
             detKept |-> /\ processed
                         /\ UNCHANGED detVars
                         /\ onNoteCalls' = <<>>]

TriggerInit == ModuleInit /\ EnvInit /\ obs = TriggerObsInit

TriggerStart ==
  /\ nAcq = 0
  /\ StartCall(Null, Null, TriggerAutoRecoveryMs)
  /\ ObserveTrigger(NoFrame)

TriggerTick ==
  \E h \in pending, f \in TriggerFrames : Tick(h, f) /\ ObserveTrigger(f)

TriggerGumResolve ==
  \E id \in Acqs, ctxState \in {"running", "suspended"} :
    GumResolve(id, ctxState) /\ ObserveTrigger(NoFrame)

TriggerGumReject ==
  \E id \in Acqs : GumReject(id) /\ ObserveTrigger(NoFrame)

TriggerResumeResolve ==
  \E id \in Acqs : ResumeResolve(id) /\ ObserveTrigger(NoFrame)

TriggerTrackEnded ==
  \E s \in Acqs : TrackEnded(s) /\ ObserveTrigger(NoFrame)

TriggerAdvance == Advance(MaxNowTrigger) /\ ObserveTrigger(NoFrame)

TriggerNext ==
  \/ TriggerStart
  \/ TriggerTick
  \/ TriggerGumResolve
  \/ TriggerGumReject
  \/ TriggerResumeResolve
  \/ TriggerTrackEnded
  \/ TriggerAdvance

SpecTrigger == TriggerInit /\ [][TriggerNext]_vars

C13_LivenessCheck ==
  (obs.frame # NoFrame /\ ~obs.alive /\ ~obs.recovering) =>
    (obs.triggered /\ obs.detKept)

\* C13 witness: a pitched frame found the track dead after an earlier recovery
\* had failed, and handed over to recovery with a candidate pending.
C13_Witness ==
  /\ obs.frame # NoFrame /\ ~obs.alive /\ ~obs.recovering
  /\ obs.frame.peakHz # Null
  /\ obs.triggered /\ obs.detKept
  /\ candidateMidi # Null
  /\ \E id \in Acqs : calls[id].pc = "failed"

-----------------------------------------------------------------------------
\* The status specification: the same session without the clock (the silence
\* timeout keeps its default and never fires), observed for the status calls
\* of each frame and for the detection state at each completion.

StatusFrames ==
  { [rms |-> 0, peakHz |-> Null], [rms |-> 20, peakHz |-> 262] }

\* Observers: the frame the step just taken processed (NoFrame if none), the
\* status calls it made, whether an execution of restartMicrophone is in
\* flight after the step, and whether the step completed startListening or a
\* successful recovery.
StatusObsInit ==
  [frame |-> NoFrame, statuses |-> <<>>, inFlight |-> FALSE,
   completed |-> FALSE]

ObserveStatus(frame) ==
  LET processed == frame # NoFrame /\ analyser # Null /\ audioContext # "null"
                     /\ callbackRef # Null
  IN obs' = [frame |-> IF processed THEN frame ELSE NoFrame,
             statuses |-> IF processed THEN onStatusCalls' ELSE <<>>,
             inFlight |-> \E id \in Acqs :
                            /\ calls'[id].kind = "restart"
                            /\ calls'[id].pc \in {"gum", "resume"},
             completed |-> \E id \in Acqs :
                             calls[id].pc # "done" /\ calls'[id].pc = "done"]

StatusInit == ModuleInit /\ EnvInit /\ obs = StatusObsInit

StatusStart ==
  /\ nAcq = 0
  /\ StartCall(Null, Null, Null)
  /\ ObserveStatus(NoFrame)

StatusTick ==
  \E h \in pending, f \in StatusFrames :
    Tick(h, f) /\ nAcq' <= LifeMaxAcq /\ ObserveStatus(f)

StatusGumResolve ==
  \E id \in Acqs, ctxState \in {"running", "suspended"} :
    GumResolve(id, ctxState) /\ ObserveStatus(NoFrame)

StatusGumReject ==
  \E id \in Acqs : GumReject(id) /\ ObserveStatus(NoFrame)

StatusResumeResolve ==
  \E id \in Acqs : ResumeResolve(id) /\ ObserveStatus(NoFrame)

StatusTrackEnded ==
  \E s \in Acqs :
    TrackEnded(s) /\ nAcq' <= LifeMaxAcq /\ ObserveStatus(NoFrame)

StatusNext ==
  \/ StatusStart
  \/ StatusTick
  \/ StatusGumResolve
  \/ StatusGumReject
  \/ StatusResumeResolve
  \/ StatusTrackEnded

SpecStatus == StatusInit /\ [][StatusNext]_vars

\* C14: every processed frame invokes the status callback once, with that
\* frame's RMS as the level and with status 'recovering' when an execution of
\* restartMicrophone is in flight and 'listening' otherwise.
C14_StatusOnEveryFrame ==
  obs.frame # NoFrame =>
    /\ Len(obs.statuses) = 1
    /\ obs.statuses[1].level = obs.frame.rms
    /\ obs.statuses[1].status =
         (IF obs.inFlight THEN "recovering" ELSE "listening")

\* C14, with the status read from the module's own flag: every processed
\* frame invokes the status callback once with that frame's RMS, and with
\* 'recovering' exactly when isRecovering is set after the frame.
C14_StatusFollowsFlag ==
  obs.frame # NoFrame =>
    /\ Len(obs.statuses) = 1
    /\ obs.statuses[1].level = obs.frame.rms
    /\ obs.statuses[1].status =
         (IF isRecovering THEN "recovering" ELSE "listening")

\* C15: when startListening completes and when a recovery completes
\* successfully, the last emitted MIDI, the candidate MIDI, the candidate's
\* start and the low-signal-since timestamp are all none.
C15_DetectionStateReset ==
  obs.completed =>
    /\ lastEmittedMidi = Null
    /\ candidateMidi = Null
    /\ candidateStartTs = Null
    /\ lowRmsSince = Null

-----------------------------------------------------------------------------
\* The dropout specification: one listening session (no recovery) playing
\* one pitch, with quiet frames and frames without signal in between, at
\* every spacing in time.

\* A frame below the extractor's gate; a frame between the gate and the
\* re-arm threshold that reports the pitch; a frame at the threshold that
\* reports it; a frame at the threshold without a pitch.
RearmFrames ==
  { [rms |-> 5, peakHz |-> Null], [rms |-> 11, peakHz |-> 262],
    [rms |-> 12, peakHz |-> 262], [rms |-> 12, peakHz |-> Null] }

Min(a, b) == IF a < b THEN a ELSE b

\* Observers, computed from the frames fed and the notes delivered:
\*   frame: the frame the step just taken processed (NoFrame if none);
\*   prevEmitted, prevTimer: lastEmittedMidi and lowRmsSince when it came;
\*   lastT: the time of the last frame; lastOut: the MIDI of the last note;
\*   lowStart, lowCount: the time of the first frame of the current unbroken
\*     stretch of frames with RMS below the re-arm threshold, and the number
\*     of its frames (2 for two or more);
\*   dropStart: the same for the stretch of frames without signal (dropout);
\*   since the last note: hadDrop, a frame without signal came; longDrop, a
\*     dropout spanned rearmMs; clearedInDrop, a frame without signal cleared
\*     lastEmittedMidi; lowSpanned, a low-RMS stretch spanned rearmMs;
\*     lowTotal, the summed length of the low-RMS stretches (up to rearmMs);
\*   redelivered: the note just delivered repeats the one before it, and
\*     outLowSpanned, outClearedInDrop, outLongDrop: the values lowSpanned,
\*     clearedInDrop and longDrop had when it was delivered.
RearmObsInit ==
  [frame |-> NoFrame, prevEmitted |-> Null, prevTimer |-> Null,
   lastT |-> Null, lastOut |-> Null,
   lowStart |-> Null, lowCount |-> 0, dropStart |-> Null,
   hadDrop |-> FALSE, longDrop |-> FALSE, clearedInDrop |-> FALSE,
   lowSpanned |-> FALSE, lowTotal |-> 0,
   redelivered |-> FALSE, outLowSpanned |-> FALSE,
   outClearedInDrop |-> FALSE, outLongDrop |-> FALSE]

ObserveRearm(frame) ==
  LET t == now
      fm == FrameMidi(frame)
      low == frame.rms < rearmRmsThresh
      out == IF onNoteCalls' = <<>> THEN Null
             ELSE noteToMidi(onNoteCalls'[1].note)
      lowSpans == low /\ obs.lowStart # Null /\ t - obs.lowStart >= rearmMs
      dropSpans == /\ fm = Null
                   /\ t - (IF obs.dropStart = Null THEN t ELSE obs.dropStart)
                        >= rearmMs
      cleared == lastEmittedMidi # Null /\ lastEmittedMidi' = Null
      again == out # Null /\ out = obs.lastOut
  IN obs' = [frame |-> frame,
             prevEmitted |-> lastEmittedMidi,
             prevTimer |-> lowRmsSince,
             lastT |-> t,
             lastOut |-> IF out # Null THEN out ELSE obs.lastOut,
             lowStart |-> IF ~low THEN Null
                          ELSE IF obs.lowStart = Null THEN t
                          ELSE obs.lowStart,
             lowCount |-> IF ~low THEN 0
                          ELSE IF obs.lowCount = 0 THEN 1 ELSE 2,
             dropStart |-> IF fm # Null THEN Null
                           ELSE IF obs.dropStart = Null THEN t
                           ELSE obs.dropStart,
             hadDrop |-> IF out # Null THEN FALSE
                         ELSE obs.hadDrop \/ fm = Null,
             longDrop |-> IF out # Null THEN FALSE
                          ELSE obs.longDrop \/ dropSpans,
             clearedInDrop |-> IF out # Null THEN FALSE
                               ELSE obs.clearedInDrop \/ (cleared /\ fm = Null),
             lowSpanned |-> IF out # Null THEN FALSE
                            ELSE obs.lowSpanned \/ lowSpans,
             lowTotal |-> IF out # Null THEN 0
                          ELSE IF low /\ obs.lowStart # Null
                          THEN Min(rearmMs, obs.lowTotal + (t - obs.lastT))
                          ELSE obs.lowTotal,
             redelivered |-> again,
             outLowSpanned |-> again /\ (obs.lowSpanned \/ lowSpans),
             outClearedInDrop |-> again /\ obs.clearedInDrop,
             outLongDrop |-> again /\ obs.longDrop]

RearmInit == ModuleInit /\ EnvInit /\ obs = RearmObsInit

RearmStart ==
  /\ nAcq = 0
  /\ \E span \in {0, RearmSpanMs} : StartCall(RearmMinStableMs, span, Null)
  /\ UNCHANGED obs

RearmGumResolve ==
  \E id \in Acqs, ctxState \in {"running", "suspended"} :
    GumResolve(id, ctxState) /\ UNCHANGED obs

RearmResumeResolve ==
  \E id \in Acqs : ResumeResolve(id) /\ UNCHANGED obs

RearmTick ==
  \E h \in pending, f \in RearmFrames : Tick(h, f) /\ ObserveRearm(f)

RearmAdvance ==
  /\ Advance(MaxNowRearm)
  /\ obs' = [obs EXCEPT !.frame = NoFrame, !.redelivered = FALSE,
                        !.outLowSpanned = FALSE, !.outClearedInDrop = FALSE,
                        !.outLongDrop = FALSE]

RearmNext ==
  \/ RearmStart
  \/ RearmGumResolve
  \/ RearmResumeResolve
  \/ RearmTick
  \/ RearmAdvance

SpecRearm == RearmInit /\ [][RearmNext]_vars

\* The re-arm timer elapsed on the frame just processed: its RMS is below
\* the threshold and lowRmsSince was set rearmMs or more before it.
TimerElapsedOnFrame ==
  /\ obs.frame.rms < rearmRmsThresh
  /\ obs.prevTimer # Null
  /\ now - obs.prevTimer >= rearmMs

\* A frame without signal leaves no candidate, and leaves lastEmittedMidi as
\* it was unless the re-arm timer elapsed on it.
NoSignalFrameEffect ==
  (obs.frame # NoFrame /\ FrameMidi(obs.frame) = Null) =>
    /\ candidateMidi = Null
    /\ candidateStartTs = Null
    /\ TimerElapsedOnFrame \/ lastEmittedMidi = obs.prevEmitted

\* C28, as stated: a frame without signal clears the candidate and keeps
\* lastEmittedMidi unless the re-arm timer elapsed on it, and the pitch is
\* not delivered a second time when lastEmittedMidi was cleared on a frame
\* without signal and no dropout since the first delivery spanned rearmMs.
C28_ShortDropoutNoReemission ==
  /\ NoSignalFrameEffect
  /\ obs.redelivered => ~(obs.outClearedInDrop /\ ~obs.outLongDrop)

\* C28, amended: a frame without signal clears the candidate and keeps
\* lastEmittedMidi unless the re-arm timer elapsed on it, and the pitch is
\* delivered a second time only if a stretch of frames with RMS below the
\* re-arm threshold, with or without signal, spanned rearmMs since the first
\* delivery.
C28_NoSignalFrame ==
  /\ NoSignalFrameEffect
  /\ obs.redelivered => obs.outLowSpanned

\* C28 witness: after the note, a dropout shorter than rearmMs, then the same
\* pitch held for minStableMs up to the frame just processed, which
\* delivered nothing.
C28_Witness ==
  /\ rearmMs > 0
  /\ obs.lastOut # Null
  /\ obs.hadDrop /\ ~obs.longDrop
  /\ obs.frame # NoFrame
  /\ FrameMidi(obs.frame) = obs.lastOut
  /\ lastEmittedMidi = obs.lastOut
  /\ candidateMidi = obs.lastOut
  /\ now - candidateStartTs >= minStableMs
  /\ onNoteCalls = <<>>

\* C29: a frame with RMS at or above the re-arm threshold leaves the
\* low-signal timer not started, and a frame clears lastEmittedMidi only as
\* the second or a later frame of an unbroken low-RMS stretch that has
\* lasted rearmMs: shorter stretches never clear it, however many, and a
\* single low-RMS frame never does.
C29_TimerReset ==
  obs.frame # NoFrame =>
    /\ obs.frame.rms >= rearmRmsThresh => lowRmsSince = Null
    /\ (obs.prevEmitted # Null /\ lastEmittedMidi = Null) =>
         /\ obs.lowStart # Null
         /\ obs.lowCount >= 2
         /\ now - obs.lowStart >= rearmMs

\* C29 witness: since the note, low-RMS stretches each shorter than rearmMs
\* have added up to rearmMs; the frame just processed, at the threshold,
\* stopped the timer once more, and the note is still remembered.
C29_Witness ==
  /\ rearmMs > 0
  /\ obs.frame # NoFrame
  /\ obs.frame.rms >= rearmRmsThresh
  /\ obs.prevTimer # Null
  /\ obs.lowTotal >= rearmMs
  /\ ~obs.lowSpanned
  /\ lastEmittedMidi # Null
  /\ lastEmittedMidi = obs.lastOut

\* The frame just processed is the second or a later frame of an unbroken
\* stretch of frames with RMS below the re-arm threshold that has lasted
\* rearmMs: the re-arm timer has elapsed and the frames have stayed low.
LowStretchElapsed ==
  /\ obs.frame # NoFrame
  /\ obs.lowCount >= 2
  /\ now - obs.lowStart >= rearmMs

\* C35: a frame of a low-RMS stretch on which the re-arm timer has elapsed
\* delivers no note, whether or not it passes the extractor's silence gate
\* and however long the frames have reported the same MIDI.
C35_NoEmissionWhileLow == LowStretchElapsed => onNoteCalls = <<>>

\* C35 witness: every frame of the session so far had RMS between the
\* silence gate and the re-arm threshold and reported the same MIDI, for
\* longer than minStableMs and for rearmMs or more, rearmMs not 0, and the
\* frame just processed delivered nothing.
C35_Witness ==
  /\ LowStretchElapsed
  /\ rearmMs > 0
  /\ obs.frame.rms >= SilenceRms
  /\ FrameMidi(obs.frame) # Null
  /\ obs.lastOut = Null /\ ~obs.hadDrop
  /\ now - obs.lowStart > minStableMs
  /\ onNoteCalls = <<>>

-----------------------------------------------------------------------------
\* The quantization specification: one listening session (no recovery) fed
\* frames whose autocorrelation peak lies at the ends of the extractor's
\* range and beyond them.

\* Peaks at 40, 49, 2001 and 2100 Hz (outside the range), at 50 Hz and
\* 2000 Hz (its ends), and silence.
RangeFrames ==
  [rms : {20}, peakHz : {40, 49, 50, 2000, 2001, 2100}]
    \cup {[rms |-> 0, peakHz |-> Null]}

\* Observers: the frame the step just taken processed (NoFrame if none), the
\* MIDI value it was quantized to at line 194 (Null when getPitch returned
\* null), and whether it called midiToNote at line 201.
RangeObsInit == [frame |-> NoFrame, quantized |-> Null, called |-> FALSE]

ObserveRange(frame) ==
  obs' = [frame |-> frame,
          quantized |-> FrameMidi(frame),
          called |-> onNoteCalls' # <<>> \/ thrown' = "TypeError"]

RangeInit == ModuleInit /\ EnvInit /\ obs = RangeObsInit

RangeStart ==
  /\ nAcq = 0
  /\ StartCall(RangeMinStableMs, Null, Null)
  /\ UNCHANGED obs

RangeGumResolve ==
  \E id \in Acqs, ctxState \in {"running", "suspended"} :
    GumResolve(id, ctxState) /\ UNCHANGED obs

RangeResumeResolve ==
  \E id \in Acqs : ResumeResolve(id) /\ UNCHANGED obs

RangeTick ==
  \E h \in pending, f \in RangeFrames : Tick(h, f) /\ ObserveRange(f)

RangeAdvance == Advance(MaxNowRange) /\ obs' = RangeObsInit

RangeNext ==
  \/ RangeStart
  \/ RangeGumResolve
  \/ RangeResumeResolve
  \/ RangeTick
  \/ RangeAdvance

SpecRange == RangeInit /\ [][RangeNext]_vars

\* C30: every MIDI value a frame is quantized to lies in 31 .. 95, and a
\* frame that calls midiToNote passes such a value, gets a note of that MIDI
\* value back and delivers it: the call never fails.
C30_MidiInRange ==
  obs.frame # NoFrame =>
    /\ obs.quantized # Null => (31 <= obs.quantized /\ obs.quantized <= 95)
    /\ obs.called =>
         /\ obs.quantized # Null
         /\ 0 <= obs.quantized
         /\ thrown = "none"
         /\ Len(onNoteCalls) = 1
         /\ onNoteCalls[1].note.letter \in {"C", "D", "E", "F", "G", "A", "B"}
         /\ noteToMidi(onNoteCalls[1].note) = obs.quantized

\* C30 witness: a frame at 50 Hz, the lower end of the range, delivered the
\* note of MIDI 31.
C30_Witness ==
  /\ obs.frame # NoFrame
  /\ obs.frame.peakHz = 50
  /\ obs.called
  /\ obs.quantized = 31
  /\ onNoteCalls # <<>>

-----------------------------------------------------------------------------
\* The capture-gap specification: one session whose track may end and whose
\* recoveries succeed or fail (the silence timeout keeps its default and never
\* fires), observed for what the frame loop does around a recovery.

\* Silence, and two pitches.
HoldFrames ==
  { [rms |-> 0, peakHz |-> Null], [rms |-> 20, peakHz |-> 262],
    [rms |-> 20, peakHz |-> 440] }

\* Observers, computed from the calls made and the frames fed:
\*   recoveryOnArrival: the step just taken was a frame callback that got
\*     past line 140 and arrived with an execution of restartMicrophone in
\*     flight; byEvent: one of those executions was started by the track's
\*     ended event;
\*   processed: that frame reached the status report of line 178 and the
\*     detection code after it;
\*   holdMidi, holdStart: the MIDI value that every frame since holdStart has
\*     reported and the time of the first of these frames, none after a
\*     frame without signal, and none from the moment a recovery starts until
\*     the first pitched frame after the last recovery has ended.
HoldObsInit ==
  [recoveryOnArrival |-> FALSE, byEvent |-> FALSE, processed |-> FALSE,
   holdMidi |-> Null, holdStart |-> Null]

ObserveHold(frame) ==
  LET arrived == frame # NoFrame /\ analyser # Null /\ audioContext # "null"
                   /\ callbackRef # Null
      reached == /\ arrived
                 /\ ~(~isTrackAlive /\ ~isRecovering)
                 /\ ~SilenceTimedOut(frame.rms, now)
      fm == IF reached THEN FrameMidi(frame) ELSE Null
      inFlightAfter == \E id \in Acqs :
                         /\ calls'[id].kind = "restart"
                         /\ calls'[id].pc \in {"gum", "resume"}
  IN obs' = [recoveryOnArrival |-> arrived /\ RecoveriesInFlight # {},
             byEvent |-> /\ arrived
                         /\ \E id \in RecoveriesInFlight : ~calls[id].thenTick,
             processed |-> reached,
             holdMidi |-> IF inFlightAfter THEN Null
                          ELSE IF reached THEN fm
                          ELSE obs.holdMidi,
             holdStart |-> IF inFlightAfter THEN Null
                           ELSE IF ~reached THEN obs.holdStart
                           ELSE IF fm = Null THEN Null
                           ELSE IF fm = obs.holdMidi THEN obs.holdStart
                           ELSE now]

HoldInit == ModuleInit /\ EnvInit /\ obs = HoldObsInit

HoldStart ==
  /\ nAcq = 0
  /\ StartCall(HoldMinStableMs, Null, Null)
  /\ ObserveHold(NoFrame)

HoldTick ==
  \E h \in pending, f \in HoldFrames :
    Tick(h, f) /\ nAcq' <= LifeMaxAcq /\ ObserveHold(f)

HoldGumResolve ==
  \E id \in Acqs, ctxState \in {"running", "suspended"} :
    GumResolve(id, ctxState) /\ ObserveHold(NoFrame)

HoldGumReject ==
  \E id \in Acqs : GumReject(id) /\ ObserveHold(NoFrame)

HoldResumeResolve ==
  \E id \in Acqs : ResumeResolve(id) /\ ObserveHold(NoFrame)

HoldTrackEnded ==
  \E s \in Acqs :
    TrackEnded(s) /\ nAcq' <= LifeMaxAcq /\ ObserveHold(NoFrame)

HoldAdvance == Advance(MaxNowHold) /\ ObserveHold(NoFrame)

HoldNext ==
  \/ HoldStart
  \/ HoldTick
  \/ HoldGumResolve
  \/ HoldGumReject
  \/ HoldResumeResolve
  \/ HoldTrackEnded
  \/ HoldAdvance

SpecHold == HoldInit /\ [][HoldNext]_vars

\* C26: a frame callback that arrives while an execution of
\* restartMicrophone is in flight, however it was started, does not reach the
\* status report, the re-arm timer, the pitch extraction or the emission.
C26_LoopPausedDuringRecovery ==
  obs.recoveryOnArrival => ~obs.processed

\* C26, for recoveries that a frame started (liveness check or silence
\* timeout): no frame callback arrives while only such recoveries are in
\* flight.
C26_PausedWhenFrameStarted ==
  obs.recoveryOnArrival => obs.byEvent

\* C27: a frame that delivers MIDI m at time t has a candidate start s with
\* t - s >= minStableMs, and every frame from s to t reported m, with no frame
\* without signal and no recovery in between.
C27_ContinuousHold ==
  onNoteCalls # <<>> =>
    /\ candidateStartTs # Null
    /\ now - candidateStartTs >= minStableMs
    /\ obs.holdMidi = noteToMidi(onNoteCalls[1].note)
    /\ obs.holdStart # Null
    /\ obs.holdStart <= candidateStartTs

-----------------------------------------------------------------------------
\* The note-arithmetic specification: one call of one function of noteUtils on
\* inputs drawn from bounded sets, recorded in obs; the functions keep no
\* state, so one call from the initial state covers them.  The detector is
\* left as loaded.

Accidentals == {"", "#", "b"}

Notes ==
  [letter : {LETTER_ORDER[i] : i \in 1..Len(LETTER_ORDER)},
   accidental : Accidentals,
   octave : (MaxOctave - 1)..MaxOctave]

NaturalNotes == {n \in Notes : n.accidental = ""}

NotesInit == ModuleInit /\ EnvInit /\ obs = [op |-> "none"]

NotesMidiToNote ==
  /\ obs.op = "none"
  /\ \E m \in (0 - MaxMidiIn)..MaxMidiIn :
       obs' = [op |-> "midiToNote", m |-> m, threw |-> midiToNoteThrows(m),
               result |-> midiToNote(m)]
  /\ UNCHANGED <<progVars, envVars, onNoteCalls, onStatusCalls, thrown>>

NotesEqualCall ==
  /\ obs.op = "none"
  /\ \E a \in Notes, b \in Notes :
       obs' = [op |-> "notesEqual", a |-> a, b |-> b,
               result |-> notesEqual(a, b)]
  /\ UNCHANGED <<progVars, envVars, onNoteCalls, onStatusCalls, thrown>>

NotesRandom ==
  /\ obs.op = "none"
  /\ \E low \in NaturalNotes, high \in NaturalNotes :
       /\ noteToMidi(low) <= noteToMidi(high)
       /\ \E r \in RandomOffsets(noteToMidi(low), noteToMidi(high)),
             incl \in BOOLEAN, avoid \in BOOLEAN,
             prev \in {NoNote} \cup
                      {midiToNote(p) : p \in noteToMidi(low)..noteToMidi(high)} :
            obs' = [op |-> "randomNoteInRange", low |-> low, high |-> high,
                    includeAccidentals |-> incl, avoidRepetition |-> avoid,
                    prevNote |-> prev,
                    result |-> randomNoteInRangeCall(low, high, incl, avoid,
                                                     prev, r)]
  /\ UNCHANGED <<progVars, envVars, onNoteCalls, onStatusCalls, thrown>>

\* randomNoteInRange(low, high) on any two notes, low not above high.
NotesRandomInRange ==
  /\ obs.op = "none"
  /\ \E low \in Notes, high \in Notes :
       /\ noteToMidi(low) <= noteToMidi(high)
       /\ \E r \in RandomOffsets(noteToMidi(low), noteToMidi(high)) :
            obs' = [op |-> "randomInRange", low |-> low, high |-> high,
                    result |-> randomNoteInRange(low, high, r)]
  /\ UNCHANGED <<progVars, envVars, onNoteCalls, onStatusCalls, thrown>>

\* The characters of the strings handed to parseNote: both cases of a
\* solfege initial, the rest of that name, the two ASCII accidentals (b is a
\* letter name as well) and a digit.
ParseChars == {"S", "s", "o", "l", "#", "b", "3"}

\* The strings the documentation gives as examples: "Sol3", "F#4", "Xy9".
ParseExamples ==
  { <<"S", "o", "l", "3">>, <<"F", "#", "4">>, <<"X", "y", "9">> }

\* Every string over ParseChars of at most MaxStrLen characters, and the
\* examples.
ParseStrings ==
  UNION {[1..n -> ParseChars] : n \in 0..MaxStrLen} \cup ParseExamples

NotesParse ==
  /\ obs.op = "none"
  /\ \E str \in ParseStrings :
       obs' = [op |-> "parseNote", str |-> str, result |-> parseNote(str)]
  /\ UNCHANGED <<progVars, envVars, onNoteCalls, onStatusCalls, thrown>>

NotesStaff ==
  /\ obs.op = "none"
  /\ \E note \in Notes :
       obs' = [op |-> "getStaffPosition", note |-> note,
               result |-> getStaffPosition(note)]
  /\ UNCHANGED <<progVars, envVars, onNoteCalls, onStatusCalls, thrown>>

\* validateNoteRange on any two notes.
NotesValidate ==
  /\ obs.op = "none"
  /\ \E lowest \in Notes, highest \in Notes :
       obs' = [op |-> "validateNoteRange", lowest |-> lowest,
               highest |-> highest,
               result |-> validateNoteRange(lowest, highest)]
  /\ UNCHANGED <<progVars, envVars, onNoteCalls, onStatusCalls, thrown>>

\* The notes of the round trip: every letter and accidental, octaves 0 to 9.
RoundTripNotes ==
  [letter : {LETTER_ORDER[i] : i \in 1..Len(LETTER_ORDER)},
   accidental : Accidentals,
   octave : 0..(Len(Digits) - 1)]

\* parseNote(formatNote(note, system))
NotesRoundTrip ==
  /\ obs.op = "none"
  /\ \E note \in RoundTripNotes, system \in {"letters", "solfege"} :
       obs' = [op |-> "roundTrip", note |-> note, system |-> system,
               str |-> formatNote(note, system),
               result |-> parseNote(formatNote(note, system))]
  /\ UNCHANGED <<progVars, envVars, onNoteCalls, onStatusCalls, thrown>>

NotesNext ==
  \/ NotesRoundTrip
  \/ NotesValidate
  \/ NotesStaff
  \/ NotesParse
  \/ NotesMidiToNote
  \/ NotesEqualCall
  \/ NotesRandom
  \/ NotesRandomInRange

SpecNotes == NotesInit /\ [][NotesNext]_vars

\* C16: for every integer m, negative ones included, midiToNote(m) returns a
\* note and noteToMidi of that note is m.
C16_MidiRoundTrip ==
  obs.op = "midiToNote" =>
    (~obs.threw /\ noteToMidi(obs.result) = obs.m)

\* C17: for every integer m, midiToNote(m) returns a note that is natural or
\* sharp, whose octave is floor(m / 12) - 1 and whose letter and accidental
\* are the table's entry at the non-negative residue of m modulo 12.
C17_MidiToNoteShape ==
  obs.op = "midiToNote" =>
    /\ ~obs.threw
    /\ obs.result.accidental \in {"", "#"}
    /\ obs.result.octave = (obs.m \div 12) - 1
    /\ obs.result.letter = semitonesMap[(obs.m % 12) + 1].letter
    /\ obs.result.accidental = semitonesMap[(obs.m % 12) + 1].accidental

\* C18: notesEqual(a, b) is true exactly when the two notes have the same
\* MIDI value; it is reflexive and symmetric, and C sharp 4 equals D flat 4
\* and B sharp 3 equals C 4.
C18_NotesEqual ==
  obs.op = "notesEqual" =>
    /\ obs.result = (noteToMidi(obs.a) = noteToMidi(obs.b))
    /\ obs.result = notesEqual(obs.b, obs.a)
    /\ notesEqual(obs.a, obs.a)
    /\ notesEqual([letter |-> "C", accidental |-> "#", octave |-> MaxOctave],
                  [letter |-> "D", accidental |-> "b", octave |-> MaxOctave])
    /\ notesEqual([letter |-> "B", accidental |-> "#", octave |-> MaxOctave - 1],
                  [letter |-> "C", accidental |-> "", octave |-> MaxOctave])

\* C18 witness: two different spellings of one pitch have been compared and
\* found equal.
C18_Witness ==
  /\ obs.op = "notesEqual"
  /\ obs.a.letter = "B" /\ obs.a.accidental = "#"
  /\ obs.b.letter = "C" /\ obs.b.accidental = ""
  /\ obs.b.octave = obs.a.octave + 1
  /\ obs.result

\* C19: called with includeAccidentals = false on a range that holds a natural
\* pitch, randomNoteInRange returns a note with no accidental.
C19_NoAccidentals ==
  (obs.op = "randomNoteInRange" /\ ~obs.includeAccidentals) =>
    obs.result.accidental = ""

\* The MIDI values randomNoteInRange may return for a range: all of them, or
\* the natural ones when includeAccidentals is false.
EligibleMidi(low, high, incl) ==
  {p \in noteToMidi(low)..noteToMidi(high) :
     incl \/ semitonesMap[(p % 12) + 1].accidental = ""}

\* C20: called with avoidRepetition = true and a previous note,
\* randomNoteInRange returns a note whose MIDI value differs from the previous
\* note's, unless the range holds that one eligible pitch only.
C20_NoRepetition ==
  (/\ obs.op = "randomNoteInRange"
   /\ obs.avoidRepetition
   /\ obs.prevNote # NoNote
   /\ EligibleMidi(obs.low, obs.high, obs.includeAccidentals)
        # {noteToMidi(obs.prevNote)})
    => noteToMidi(obs.result) # noteToMidi(obs.prevNote)

\* C21: for low not above high, every result n of randomNoteInRange(low, high)
\* has noteToMidi(low) <= noteToMidi(n) <= noteToMidi(high), and among the
\* possible results are one at each of the two bounds.
C21_RandomWithinRange ==
  obs.op = "randomInRange" =>
    LET lo == noteToMidi(obs.low)
        hi == noteToMidi(obs.high)
        outcomes == {noteToMidi(randomNoteInRange(obs.low, obs.high, r)) :
                       r \in RandomOffsets(lo, hi)}
    IN /\ lo <= noteToMidi(obs.result)
       /\ noteToMidi(obs.result) <= hi
       /\ \A m \in outcomes : lo <= m /\ m <= hi
       /\ lo \in outcomes
       /\ hi \in outcomes

\* C21 witness: on a range of several pitches whose bounds are spelled with a
\* flat and a sharp, the draw returned the pitch of the upper bound.
C21_Witness ==
  /\ obs.op = "randomInRange"
  /\ obs.low.accidental = "b"
  /\ obs.high.accidental = "#"
  /\ noteToMidi(obs.low) < noteToMidi(obs.high)
  /\ noteToMidi(obs.result) = noteToMidi(obs.high)

\* C22: parseNote returns, for any string, a note (a letter of C..B, an
\* accidental of none, sharp or flat, an octave digit) or null; "Sol3" gives
\* G natural 3, "F#4" gives F sharp 4, "Xy9" gives null; and a string that
\* begins with a solfege name in any mix of cases parses as the same string
\* with that name spelled as in the table.
C22_ParseNote ==
  obs.op = "parseNote" =>
    /\ \/ obs.result = NoNote
       \/ obs.result \in [letter : {LETTER_ORDER[i] : i \in 1..7},
                          accidental : {"", "#", "b"}, octave : 0..9]
    /\ obs.str = <<"S", "o", "l", "3">> =>
         obs.result = [letter |-> "G", accidental |-> "", octave |-> 3]
    /\ obs.str = <<"F", "#", "4">> =>
         obs.result = [letter |-> "F", accidental |-> "#", octave |-> 4]
    /\ obs.str = <<"X", "y", "9">> => obs.result = NoNote
    /\ \A i \in 1..7 :
         LET name == SOLFEGE_MAP[LETTER_ORDER[i]]
             n == Len(name)
         IN (/\ Len(obs.str) > n
             /\ StrToLower(SubSeq(obs.str, 1, n)) = StrToLower(name))
            => obs.result =
                 parseNote(name \o SubSeq(obs.str, n + 1, Len(obs.str)))

\* C22 witness: "sol#3", the solfege name in lower case, parsed as G sharp 3.
C22_Witness ==
  /\ obs.op = "parseNote"
  /\ obs.str = <<"s", "o", "l", "#", "3">>
  /\ obs.result = [letter |-> "G", accidental |-> "#", octave |-> 3]

\* C23: getStaffPosition(note) is (octave - 4) * 7 plus the letter's place in
\* C, D, E, F, G, A, B minus the place of B; B4 is at 0; and the note's
\* natural, sharp and flat have the same position.
C23_StaffPosition ==
  obs.op = "getStaffPosition" =>
    LET place == [C |-> 0, D |-> 1, E |-> 2, F |-> 3, G |-> 4, A |-> 5, B |-> 6]
    IN /\ obs.result
            = (obs.note.octave - 4) * 7 + place[obs.note.letter] - place["B"]
       /\ (obs.note.letter = "B" /\ obs.note.octave = 4) => obs.result = 0
       /\ \A acc \in {"", "#", "b"} :
            getStaffPosition([obs.note EXCEPT !.accidental = acc]) = obs.result

\* C23 witness: the position of B flat 4 was computed, and is 0.
C23_Witness ==
  /\ obs.op = "getStaffPosition"
  /\ obs.note = [letter |-> "B", accidental |-> "b", octave |-> 4]
  /\ obs.result = 0

-----------------------------------------------------------------------------
\* The pitch-extraction specification: one call of getPitch on every frame of
\* BufLen samples, recorded in obs.  The detector is left as loaded.

\* Samples in hundredths of full scale: silence, a level below the trim
\* level, and both signs of a level above it.
SampleValues == {0 - 3, 0, 1, 3}

Buffers == [1..BufLen -> SampleValues]

\* audioContext.sampleRate, scaled down with the frame length so that the
\* lags a frame of BufLen samples can have fall on both sides and on both
\* ends of the 50-2000 Hz range.
SampleRates == {100, 6000}

PitchInit == ModuleInit /\ EnvInit /\ obs = [op |-> "none"]

PitchExtract ==
  /\ obs.op = "none"
  /\ \E buffer \in Buffers, sampleRate \in SampleRates :
       obs' = [op |-> "getPitch", buffer |-> buffer, sampleRate |-> sampleRate,
               peakIndex |-> PeakIndex(buffer),
               result |-> getPitchPeriod(buffer, sampleRate)]
  /\ UNCHANGED <<progVars, envVars, onNoteCalls, onStatusCalls, thrown>>

PitchNext == PitchExtract

SpecPitch == PitchInit /\ [][PitchNext]_vars

\* The sum of the squares of the samples of a frame.
SumOfSquares(buffer) == SumProducts(buffer, 0, Len(buffer))

\* C24: getPitch returns no-signal or sampleRate / lag for a lag >= 1 with
\* 50 <= sampleRate / lag <= 2000; a frame whose autocorrelation peak gives a
\* frequency below 50 Hz or above 2000 Hz yields no-signal, and so does a
\* frame whose RMS is below 0.01 (mean square below one hundredth squared).
C24_ExtractorRange ==
  obs.op = "getPitch" =>
    /\ obs.result # Null =>
         /\ obs.result >= 1
         /\ 50 * obs.result <= obs.sampleRate
         /\ obs.sampleRate <= 2000 * obs.result
    /\ (/\ obs.peakIndex >= 1
        /\ \/ obs.sampleRate < 50 * obs.peakIndex
           \/ obs.sampleRate > 2000 * obs.peakIndex)
       => obs.result = Null
    /\ SumOfSquares(obs.buffer) < Len(obs.buffer) => obs.result = Null

\* C24 witness: a frame was given a frequency of exactly 50 Hz.
C24_Witness ==
  /\ obs.op = "getPitch"
  /\ obs.result # Null
  /\ obs.sampleRate = 50 * obs.result

\* The strict local maxima of positive value of the autocorrelation of the
\* trimmed frame: lags with both neighbours inside the curve.
LocalMaxima(buffer) ==
  LET ac == Autocorr(Trimmed(buffer))
  IN {l \in 1..(Len(Trimmed(buffer)) - 2) :
        ac[l] > 0 /\ ac[l] > ac[l - 1] /\ ac[l] > ac[l + 1]}

\* C25: for a frame that passes the RMS gate, the lag chosen is the smallest
\* among the strict local maxima (lag > 0) of the autocorrelation of the
\* trimmed frame that have the largest value; with no local maximum of
\* positive value the result is no-signal.
C25_PeakChoice ==
  (obs.op = "getPitch" /\ ~(SumOfSquares(obs.buffer) < Len(obs.buffer))) =>
    LET ac == Autocorr(Trimmed(obs.buffer))
        maxima == LocalMaxima(obs.buffer)
        best == {l \in maxima : \A k \in maxima : ac[k] <= ac[l]}
    IN IF maxima = {}
       THEN obs.peakIndex = 0 - 1 /\ obs.result = Null
       ELSE /\ obs.peakIndex \in best
            /\ \A l \in best : obs.peakIndex <= l
            /\ obs.result \in {Null, obs.peakIndex}

\* C25 witness: two local maxima of the same value, the one at the smaller
\* lag chosen and its frequency returned.
C25_Witness ==
  /\ obs.op = "getPitch"
  /\ \E l \in LocalMaxima(obs.buffer) :
       /\ l > obs.peakIndex
       /\ Autocorr(Trimmed(obs.buffer))[l]
            = Autocorr(Trimmed(obs.buffer))[obs.peakIndex]
  /\ obs.result = obs.peakIndex

\* C31: validateNoteRange(lowest, highest) is true exactly when
\* noteToMidi(lowest) < noteToMidi(highest), notes with a sharp or a flat
\* included.
C31_ValidateNoteRange ==
  obs.op = "validateNoteRange" =>
    obs.result = (noteToMidi(obs.lowest) < noteToMidi(obs.highest))

\* C31 on natural notes only, the notes the settings panel offers
\* (getAllNotes, settings.ts lines 84-98).
C31_OnNaturals ==
  (obs.op = "validateNoteRange" /\ obs.lowest.accidental = ""
     /\ obs.highest.accidental = "") =>
    obs.result = (noteToMidi(obs.lowest) < noteToMidi(obs.highest))

\* C32: in every reachable state at most one frame callback is pending,
\* whatever the interleaving of startListening, stopListening, frame
\* callbacks, track-ended notifications and completions of acquisitions.
C32_SingleFrameLoop == Cardinality(pending) <= 1

-----------------------------------------------------------------------------
\* The stopped-session specification: the interleavings of the lifecycle
\* specification, with an observer that remembers whether stopListening has
\* returned since the last call of startListening, and what has run since.

StopObsInit == [stopped |-> FALSE, lateFrame |-> FALSE, lateFinish |-> FALSE]

\* event is "start", "stop", "frame" (a frame callback ran), "finish" (an
\* acquisition or a resume settled) or "other".
ObserveStop(event) ==
  obs' = IF event = "start" THEN StopObsInit
         ELSE IF event = "stop" THEN [StopObsInit EXCEPT !.stopped = TRUE]
         ELSE [obs EXCEPT
                 !.lateFrame = @ \/ (obs.stopped /\ event = "frame"),
                 !.lateFinish = @ \/ (obs.stopped /\ event = "finish")]

StopInit == ModuleInit /\ EnvInit /\ obs = StopObsInit

StopStart ==
  /\ nAcq < StopMaxAcq
  /\ StartCall(LifeMinStableMs, LifeRearmMs, LifeAutoRecoveryMs)
  /\ ObserveStop("start")

StopStop == StopListening /\ ObserveStop("stop")

StopTick ==
  \E h \in pending, f \in LifeFrames :
    Tick(h, f) /\ nAcq' <= StopMaxAcq /\ ObserveStop("frame")

StopGumResolve ==
  \E id \in Acqs, ctxState \in {"running", "suspended"} :
    GumResolve(id, ctxState) /\ ObserveStop("finish")

StopGumReject ==
  \E id \in Acqs : GumReject(id) /\ ObserveStop("finish")

StopResumeResolve ==
  \E id \in Acqs : ResumeResolve(id) /\ ObserveStop("finish")

StopTrackEnded ==
  \E s \in Acqs :
    TrackEnded(s) /\ nAcq' <= StopMaxAcq /\ ObserveStop("other")

StopAdvance == Advance(MaxNowStop) /\ ObserveStop("other")

StopNext ==
  \/ StopStart
  \/ StopStop
  \/ StopTick
  \/ StopGumResolve
  \/ StopGumReject
  \/ StopResumeResolve
  \/ StopTrackEnded
  \/ StopAdvance

SpecStop == StopInit /\ [][StopNext]_vars

\* C33: after stopListening has returned and until startListening is called
\* again, no step invokes the note callback or the status callback: not a
\* frame callback scheduled earlier, not a recovery or an acquisition that
\* settles later.
C33_SilentAfterStop ==
  obs.stopped => (onNoteCalls = <<>> /\ onStatusCalls = <<>>)

\* C33 witness: since stopListening returned, a frame callback has run and an
\* acquisition has settled.
C33_Witness == obs.stopped /\ obs.lateFrame /\ obs.lateFinish

\* C34: a startListening whose acquisition is rejected leaves the module as
\* it was before the call; here for the first call made on the module as
\* loaded: once its getUserMedia has been rejected, no note callback and no
\* status callback is registered and the auto-recovery timeout is the
\* initial one.
C34_FailedStartLeavesNoTrace ==
  (nAcq = 1 /\ calls[1].kind = "start" /\ calls[1].pc = "failed") =>
    /\ callbackRef = Null
    /\ statusCallbackRef = Null
    /\ autoRecoveryTimeoutMs = DefaultAutoRecoveryTimeoutMs

-----------------------------------------------------------------------------
\* The silence specification: one session whose track stays live and whose
\* acquisitions all succeed, fed silent and loud frames at every spacing in
\* time.

StormFrames ==
  { [rms |-> 0, peakHz |-> Null], [rms |-> 20, peakHz |-> 262] }

\* Observers:
\*   startDone: the time the latest startListening completed (Null if none);
\*   triggeredAt: the time of the latest silence-triggered recovery;
\*   triggered: the step just taken was a frame that started a recovery on
\*     the silence timeout (line 169), and then
\*   sinceStart, sincePrev: the time from startDone and from the previous
\*     silence-triggered recovery to that frame (Null if there is none).
StormObsInit ==
  [startDone |-> Null, triggeredAt |-> Null, triggered |-> FALSE,
   sinceStart |-> Null, sincePrev |-> Null]

ObserveStorm(isFrame) ==
  LET processed == isFrame /\ analyser # Null /\ audioContext # "null"
                     /\ callbackRef # Null
      bySilence == processed /\ nAcq' > nAcq /\ (isTrackAlive \/ isRecovering)
      started == \E id \in Acqs : /\ calls[id].kind = "start"
                                  /\ calls[id].pc # "done"
                                  /\ calls'[id].pc = "done"
      Since(t) == IF t = Null THEN Null ELSE now - t
  IN obs' = [startDone |-> IF started THEN now ELSE obs.startDone,
             triggeredAt |-> IF bySilence THEN now ELSE obs.triggeredAt,
             triggered |-> bySilence,
             sinceStart |-> IF bySilence THEN Since(obs.startDone) ELSE Null,
             sincePrev |-> IF bySilence THEN Since(obs.triggeredAt) ELSE Null]

StormInit == ModuleInit /\ EnvInit /\ obs = StormObsInit

StormStart ==
  /\ nAcq = 0
  /\ StartCall(Null, Null, StormAutoRecoveryMs)
  /\ ObserveStorm(FALSE)

StormTick ==
  \E h \in pending, f \in StormFrames :
    Tick(h, f) /\ nAcq' <= StormMaxAcq /\ ObserveStorm(TRUE)

StormGumResolve ==
  \E id \in Acqs, ctxState \in {"running", "suspended"} :
    GumResolve(id, ctxState) /\ ObserveStorm(FALSE)

StormResumeResolve ==
  \E id \in Acqs : ResumeResolve(id) /\ ObserveStorm(FALSE)

StormAdvance == Advance(MaxNowStorm) /\ ObserveStorm(FALSE)

StormNext ==
  \/ StormStart
  \/ StormTick
  \/ StormGumResolve
  \/ StormResumeResolve
  \/ StormAdvance

SpecStorm == StormInit /\ [][StormNext]_vars

\* C36: with tracks that stay live and acquisitions that succeed, a
\* silence-triggered recovery comes more than autoRecoveryTimeoutMs after
\* the previous one and more than autoRecoveryTimeoutMs after startListening
\* completed.
C36_NoRecoveryStorm ==
  obs.triggered =>
    /\ obs.sincePrev # Null => obs.sincePrev > autoRecoveryTimeoutMs
    /\ obs.sinceStart # Null => obs.sinceStart > autoRecoveryTimeoutMs

\* C36 witness: a second silence-triggered recovery has just started in a
\* session whose startListening completed.
C36_Witness ==
  obs.triggered /\ obs.sincePrev # Null /\ obs.sinceStart # Null

-----------------------------------------------------------------------------
\* The practice page (Index.tsx).  The component's React state is the record
\* obs: targetNotes, currentIndex, score, liveDetectedNote, lastSuccessNote,
\* lastSuccessTime; timers holds the pending setTimeout callbacks of
\* handleNotePlayed with the time they are due, nextUid numbers the targets
\* (uid), credits lists the uid of the current target at each increment of
\* score.correct, and tapped tells whether the fingerboard was tapped.  Time is in units of 100 ms.  The isNew flag and its
\* 300 ms timer only drive an animation and are left out.

\* The delay of both timers of handleNotePlayed (lines 116 and 137): 400 ms.
StatusDelay == 4

\* settings.lowestNote and settings.highestNote of the page specification.
PageLowest == [letter |-> "C", accidental |-> "", octave |-> MaxOctave]
PageHighest == [letter |-> "D", accidental |-> "", octave |-> MaxOctave]

\* The notes randomNoteInRange can return on the page.
PageNotes ==
  { randomNoteInRangeCall(PageLowest, PageHighest, FALSE, FALSE, NoNote, r) :
      r \in RandomOffsets(noteToMidi(PageLowest), noteToMidi(PageHighest)) }

\* lines 75-139, the synchronous part: the played note is judged against
\* the current target whatever the target's status.
handleNotePlayed(st, playedNote, t) ==
  LET i == st.currentIndex + 1
      currentTargetNote == st.targetNotes[i]
      isCorrect == notesEqual(playedNote, currentTargetNote.note)
  IN IF st.currentIndex >= Len(st.targetNotes) THEN st
     ELSE IF isCorrect
     THEN [st EXCEPT !.targetNotes[i].status = "correct",
                     !.score.correct = @ + 1,
                     !.credits = Append(@, currentTargetNote.uid),
                     !.timers = Append(@, [kind |-> "remove",
                                           due |-> t + StatusDelay])]
     ELSE [st EXCEPT !.targetNotes[i].status = "incorrect",
                     !.score.incorrect = @ + 1,
                     !.timers = Append(@, [kind |-> "revert",
                                           due |-> t + StatusDelay])]

\* lines 173-195: the live-detection effect, run after a render that changed
\* one of its dependencies.
LiveDetectionEffect(st, t) ==
  IF st.liveDetectedNote = NoNote \/ st.currentIndex >= Len(st.targetNotes)
  THEN st
  ELSE LET target == st.targetNotes[st.currentIndex + 1]
       IN IF target.status = "pending"
             /\ notesEqual(st.liveDetectedNote, target.note)
          THEN IF /\ st.lastSuccessNote # NoNote
                  /\ notesEqual(st.liveDetectedNote, st.lastSuccessNote)
                  /\ st.lastSuccessTime # Null
                  /\ t - st.lastSuccessTime < PageRepeatBuffer
               THEN st
               ELSE [handleNotePlayed(st, st.liveDetectedNote, t) EXCEPT
                       !.lastSuccessTime = t,
                       !.lastSuccessNote = st.liveDetectedNote,
                       !.liveDetectedNote = NoNote]
          ELSE st

\* lines 94-111 and 131-137: the callback of a timer of handleNotePlayed;
\* newNote is the note randomNoteInRange returned.
TimerCallback(st, kind, newNote) ==
  IF kind = "remove"
  THEN [st EXCEPT !.targetNotes =
                     Append(Tail(@), [note |-> newNote, status |-> "pending",
                                      uid |-> st.nextUid]),
                  !.nextUid = @ + 1]
  ELSE [st EXCEPT !.targetNotes[st.currentIndex + 1].status = "pending"]

\* lines 53-73: generateNewNotes, run by the first effect of the page.
PageInit ==
  /\ ModuleInit /\ EnvInit
  /\ \E notes \in [1..PageNotesPerLine -> PageNotes] :
       obs = [targetNotes |-> [k \in 1..PageNotesPerLine |->
                                 [note |-> notes[k], status |-> "pending",
                                  uid |-> k]],
              currentIndex |-> 0,
              score |-> [correct |-> 0, incorrect |-> 0],
              liveDetectedNote |-> NoNote,
              lastSuccessNote |-> NoNote,
              lastSuccessTime |-> Null,
              timers |-> <<>>,
              nextUid |-> PageNotesPerLine + 1,
              credits |-> <<>>,
              tapped |-> FALSE]

PagePlays == obs.score.correct + obs.score.incorrect

\* A tap on the fingerboard (OudVisualizationCompact.tsx line 105).
PageTap ==
  /\ PagePlays < MaxPlays
  /\ \E playedNote \in PageNotes :
       obs' = LiveDetectionEffect(
                handleNotePlayed([obs EXCEPT !.tapped = TRUE], playedNote, now),
                now)
  /\ UNCHANGED <<progVars, envVars, onNoteCalls, onStatusCalls, thrown>>

\* The detector delivers a note to onMicNote (lines 167-171).
PageMicNote ==
  /\ PagePlays < MaxPlays
  /\ \E note \in PageNotes :
       obs' = LiveDetectionEffect([obs EXCEPT !.liveDetectedNote = note], now)
  /\ UNCHANGED <<progVars, envVars, onNoteCalls, onStatusCalls, thrown>>

\* The oldest timer is due and runs; the timers have one delay, so they run
\* in the order they were set.
PageTimer ==
  /\ obs.timers # <<>>
  /\ Head(obs.timers).due <= now
  /\ \E newNote \in PageNotes :
       obs' = LiveDetectionEffect(
                TimerCallback([obs EXCEPT !.timers = Tail(@)],
                              Head(obs.timers).kind, newNote), now)
  /\ UNCHANGED <<progVars, envVars, onNoteCalls, onStatusCalls, thrown>>

PageAdvance == Advance(MaxNowPage) /\ UNCHANGED obs

PageNext ==
  \/ PageTap
  \/ PageMicNote
  \/ PageTimer
  \/ PageAdvance

SpecPage == PageInit /\ [][PageNext]_vars

PendingRemovals ==
  Cardinality({k \in 1..Len(obs.timers) : obs.timers[k].kind = "remove"})

\* C37: a target is credited at most once, and between its being marked
\* correct and its removal no played note, tapped or detected, schedules
\* another removal: at most one removal is pending and no uid is credited
\* twice.
C37_ScoredOnce ==
  /\ PendingRemovals <= 1
  /\ \A j, k \in 1..Len(obs.credits) :
       obs.credits[j] = obs.credits[k] => j = k

\* C37 while the fingerboard has not been tapped: the live-detection effect
\* scores pending targets only.
C37_MicOnly == ~obs.tapped => C37_ScoredOnce

-----------------------------------------------------------------------------
\* The settings panel (SettingsPanel.tsx, settings.ts).  obs is the settings
\* object the panel holds: stringCount and strings, the fields its string
\* handlers read and write.

\* settings.ts lines 23-30
DEFAULT_STRINGS ==
  << [openNote |-> [letter |-> "F", accidental |-> "", octave |-> 2],
      courseCount |-> 1],
     [openNote |-> [letter |-> "A", accidental |-> "", octave |-> 2],
      courseCount |-> 2],
     [openNote |-> [letter |-> "D", accidental |-> "", octave |-> 3],
      courseCount |-> 2],
     [openNote |-> [letter |-> "G", accidental |-> "", octave |-> 3],
      courseCount |-> 2],
     [openNote |-> [letter |-> "C", accidental |-> "", octave |-> 4],
      courseCount |-> 2],
     [openNote |-> [letter |-> "F", accidental |-> "", octave |-> 4],
      courseCount |-> 2] >>

\* settings.ts lines 32-42, the two fields kept.
DEFAULT_SETTINGS == [stringCount |-> Len(DEFAULT_STRINGS), strings |-> DEFAULT_STRINGS]

\* { ...undefined }: an object with no property; reading openNote or
\* courseCount from it gives undefined.
EmptyObject == [openNote |-> NoNote, courseCount |-> Null]

\* DEFAULT_SETTINGS.strings[index], index counted from 0, spread into a new
\* object (line 39): past the end of the array the element is undefined.
SpreadDefaultString(index) ==
  IF index < Len(DEFAULT_STRINGS) THEN DEFAULT_STRINGS[index + 1]
  ELSE EmptyObject

\* lines 38-40: the while loop, on a list of any length.
RECURSIVE PadStrings(_, _)

PadStrings(newStrings, count) ==
  IF Len(newStrings) < count
  THEN PadStrings(Append(newStrings, SpreadDefaultString(Len(newStrings))),
                  count)
  ELSE newStrings

\* lines 34-42; value is the selected item's value, one digit.
handleStringCountChange(settings, value) ==
  LET count == parseInt(value)
      newStrings == PadStrings(settings.strings, count)
  IN [settings EXCEPT !.stringCount = count, !.strings = newStrings]

\* lines 48-55, for a note of the list.
handleStringTuningChange(settings, stringIndex, note) ==
  [settings EXCEPT !.strings[stringIndex + 1].openNote = note]

\* lines 57-61
handleCourseCountChange(settings, stringIndex, count) ==
  [settings EXCEPT !.strings[stringIndex + 1].courseCount = parseInt(count)]

\* A complete string configuration (settings.ts lines 5-8).
IsStringConfig(c) == c.openNote # NoNote /\ c.courseCount # Null

\* lines 153-158: the panel renders the first stringCount strings and reads
\* openNote.letter of each; on an entry without openNote that is a
\* TypeError, and the panel is gone.
PanelRenders ==
  \A k \in 1..obs.stringCount : obs.strings[k].openNote # NoNote

\* The values of the string-count items (line 139).
StringCountValues == {"4", "5", "6", "7", "8"}

\* The note the model's user retunes a string to, one of getAllNotes().
TuningNote == [letter |-> "E", accidental |-> "", octave |-> 2]

SettingsInit == ModuleInit /\ EnvInit /\ obs = DEFAULT_SETTINGS

SettingsStringCount ==
  /\ PanelRenders
  /\ \E value \in StringCountValues :
       obs' = handleStringCountChange(obs, value)
  /\ UNCHANGED <<progVars, envVars, onNoteCalls, onStatusCalls, thrown>>

SettingsTuning ==
  /\ PanelRenders
  /\ \E stringIndex \in 0..(obs.stringCount - 1) :
       obs' = handleStringTuningChange(obs, stringIndex, TuningNote)
  /\ UNCHANGED <<progVars, envVars, onNoteCalls, onStatusCalls, thrown>>

SettingsCourseCount ==
  /\ PanelRenders
  /\ \E stringIndex \in 0..(obs.stringCount - 1), count \in {"1", "2"} :
       obs' = handleCourseCountChange(obs, stringIndex, count)
  /\ UNCHANGED <<progVars, envVars, onNoteCalls, onStatusCalls, thrown>>

\* lines 94-97
SettingsReset ==
  /\ PanelRenders
  /\ obs' = DEFAULT_SETTINGS
  /\ UNCHANGED <<progVars, envVars, onNoteCalls, onStatusCalls, thrown>>

SettingsNext ==
  \/ SettingsStringCount
  \/ SettingsTuning
  \/ SettingsCourseCount
  \/ SettingsReset

SpecSettings == SettingsInit /\ [][SettingsNext]_vars

\* C38: whatever count from 4 to 8 was selected, each of the first
\* stringCount entries of settings.strings is a complete string
\* configuration, with an open note and a course count.
C38_StringsComplete ==
  /\ Len(obs.strings) >= obs.stringCount
  /\ \A k \in 1..obs.stringCount : IsStringConfig(obs.strings[k])

\* C38 for the counts that the default tuning covers.
C38_UpToDefaultCount ==
  obs.stringCount <= Len(DEFAULT_STRINGS) => C38_StringsComplete

\* C39: for every letter, every accidental (natural, sharp, flat), every
\* octave from 0 to 9 and both notation systems, parseNote(formatNote(note,
\* system)) is a note with the same letter, accidental and octave.
C39_FormatParseRoundTrip ==
  obs.op = "roundTrip" =>
    /\ obs.result # NoNote
    /\ obs.result.letter = obs.note.letter
    /\ obs.result.accidental = obs.note.accidental
    /\ obs.result.octave = obs.note.octave

\* C39 witness: G flat 9 went through the solfege notation, as "Sol", the
\* flat sign and "9", and came back.
C39_Witness ==
  /\ obs.op = "roundTrip"
  /\ obs.system = "solfege"
  /\ obs.str = <<"S", "o", "l", "U+266D", "9">>
  /\ obs.result = [letter |-> "G", accidental |-> "b", octave |-> 9]

====
